---- MODULE Spec2Model ----
(***************************************************************************)
(* Repertoire move-tree engine of the chess-openings trainer (App.tsx):    *)
(* PGN tokenizer and variation parser, MoveTree operations, PGN exporter,  *)
(* repertoire collection, undo history and training traversal.             *)
(*                                                                         *)
(* Representation.  Text is a sequence of one-character strings.  A node   *)
(* id is a pair: <<side, 0>> for the root (`${side}-0`) and <<"n", k>> for *)
(* `n-${k}`.  JavaScript null is the empty tuple Null for ids, SAN and UCI *)
(* values.  The rules oracle (chess.js) is an abstract game: a position is *)
(* the set of moves played so far, each move is playable once, by its own  *)
(* side, after its prerequisite.                                           *)
(***************************************************************************)
EXTENDS Integers, Sequences, FiniteSets, TLC

\* ------------------------------------------------------------------------
\* Bounds of the exploration
\* ------------------------------------------------------------------------
MaxSteps == 3

\* The code keeps the newest 200 snapshots (slice(-200)); the model keeps
\* the newest UndoLimit so that the overflow is reached.
UndoLimit == 2

\* ------------------------------------------------------------------------
\* Generic helpers
\* ------------------------------------------------------------------------
Null == <<>>

Range(seq) == {seq[i] : i \in 1..Len(seq)}

Min(S) == CHOOSE x \in S : \A y \in S : x <= y

Max(S) == CHOOSE x \in S : \A y \in S : x >= y

Sides == {"white", "black"}

\* ------------------------------------------------------------------------
\* Rules oracle (chess.js): positions, legal moves, SAN
\* ------------------------------------------------------------------------
START_FEN == {<<"start">>}

START_POS_FEN == {}

NullFen == {<<"null">>}

\* from, to, SAN, colour, prerequisite move (Null when none)
MoveTable ==
  { [from |-> "e2", to |-> "e4", san |-> <<"e", "4">>, color |-> "w", needs |-> Null],
    [from |-> "g1", to |-> "f3", san |-> <<"N", "f", "3">>, color |-> "w", needs |-> Null],
    [from |-> "f1", to |-> "c4", san |-> <<"B", "c", "4">>, color |-> "w", needs |-> <<"e2", "e4">>],
    [from |-> "d2", to |-> "d4", san |-> <<"d", "4">>, color |-> "w", needs |-> Null],
    [from |-> "e7", to |-> "e5", san |-> <<"e", "5">>, color |-> "b", needs |-> Null],
    [from |-> "b8", to |-> "c6", san |-> <<"N", "c", "6">>, color |-> "b", needs |-> Null],
    [from |-> "f8", to |-> "c5", san |-> <<"B", "c", "5">>, color |-> "b", needs |-> <<"e7", "e5">>] }

uciFromMove(move) == <<move.from, move.to>>

Ucis == {uciFromMove(m) : m \in MoveTable}

fenToChess(fen) == IF fen = START_FEN THEN START_POS_FEN ELSE fen

ChessTurn(chess) == IF Cardinality(chess) % 2 = 0 THEN "w" ELSE "b"

ChessMoveNumber(chess) == (Cardinality(chess) \div 2) + 1

ChessMoves(chess) ==
  {m \in MoveTable : /\ m.color = ChessTurn(chess)
                     /\ uciFromMove(m) \notin chess
                     /\ (m.needs = Null \/ m.needs \in chess)}

\* the falsy result of a rejected move (null move / null move input)
NoMove == [from |-> "", to |-> "", san |-> Null, color |-> "", needs |-> Null]

\* chess.move(san): the legal move with that SAN, or NoMove
ChessMoveSan(chess, san) ==
  IF \E m \in ChessMoves(chess) : m.san = san
  THEN CHOOSE m \in ChessMoves(chess) : m.san = san
  ELSE NoMove

\* chess.move({from, to}): the legal move with these squares, or NoMove
ChessMoveInput(chess, input) ==
  IF \E m \in ChessMoves(chess) : m.from = input.from /\ m.to = input.to
  THEN CHOOSE m \in ChessMoves(chess) : m.from = input.from /\ m.to = input.to
  ELSE NoMove

\* the position after a legal move
ChessAfter(chess, move) == chess \cup {uciFromMove(move)}

\* toTurnColor with the two colours exchanged
toTurnColorInverted(fen) == IF ChessTurn(fenToChess(fen)) = "w" THEN "black" ELSE "white"

toTurnColor(fen) == IF ChessTurn(fenToChess(fen)) = "w" THEN "white" ELSE "black"

uciToMoveInput(uci) ==
  IF Len(uci) < 2 THEN NoMove ELSE [from |-> uci[1], to |-> uci[2]]

\* ------------------------------------------------------------------------
\* MoveTree
\* ------------------------------------------------------------------------
RootIdOf(side) == <<side, 0>>

createEmptyTree(side) ==
  [ rootId |-> RootIdOf(side),
    nextId |-> 1,
    nodes  |-> [id \in {RootIdOf(side)} |->
                  [ id |-> RootIdOf(side), parentId |-> Null, fen |-> START_FEN,
                    moveSan |-> Null, moveUci |-> Null, children |-> <<>>,
                    stockfishEval |-> Null ]] ]

\* an id taken from the size of the node map instead of the counter
createNodeIdBySize(tree) == <<"n", Cardinality(DOMAIN tree.nodes)>>

createNodeId(tree) == <<"n", tree.nextId>>

HasNode(tree, id) == id \in DOMAIN tree.nodes

\* nodes[id] = value, adding the key when it is new
SetNode(nodes, id, value) ==
  [k \in (DOMAIN nodes) \cup {id} |-> IF k = id THEN value ELSE nodes[k]]

\* a find that compares the SAN of the children with the UCI move
FindChildComparingSan(tree, children, uci) ==
  LET hits == {i \in 1..Len(children) :
                 HasNode(tree, children[i]) /\ tree.nodes[children[i]].moveSan = uci}
  IN IF hits = {} THEN Null ELSE children[Min(hits)]

\* children.find(childId => nodes[childId]?.moveUci === uci), Null when none
FindChildByUci(tree, children, uci) ==
  LET hits == {i \in 1..Len(children) :
                 HasNode(tree, children[i]) /\ tree.nodes[children[i]].moveUci = uci}
  IN IF hits = {} THEN Null ELSE children[Min(hits)]

\* ensureChildNode without the lookup of an existing child
ensureChildNodeAlwaysCreates(tree, parentId, move, chessAfterMove) ==
  IF ~HasNode(tree, parentId) THEN [tree |-> tree, nodeId |-> parentId]
  ELSE [ tree |->
           [ rootId |-> tree.rootId,
             nextId |-> tree.nextId + 1,
             nodes |->
               SetNode(SetNode(tree.nodes, <<"n", tree.nextId>>,
                               [ id |-> <<"n", tree.nextId>>, parentId |-> parentId,
                                 fen |-> chessAfterMove, moveSan |-> move.san,
                                 moveUci |-> uciFromMove(move), children |-> <<>>,
                                 stockfishEval |-> Null ]),
                       parentId,
                       [tree.nodes[parentId] EXCEPT
                          !.children = Append(tree.nodes[parentId].children, <<"n", tree.nextId>>)]) ],
         nodeId |-> <<"n", tree.nextId>> ]

ensureChildNode(tree, parentId, move, chessAfterMove) ==
  IF ~HasNode(tree, parentId) THEN [tree |-> tree, nodeId |-> parentId]
  ELSE
    LET parent == tree.nodes[parentId]
        uci == uciFromMove(move)
        existingChildId == FindChildByUci(tree, parent.children, uci)
        nodeId == createNodeId(tree)
        newNode == [ id |-> nodeId, parentId |-> parentId, fen |-> chessAfterMove,
                     moveSan |-> move.san, moveUci |-> uci, children |-> <<>>,
                     stockfishEval |-> Null ]
        withNode == SetNode(tree.nodes, nodeId, newNode)
    IN IF existingChildId # Null THEN [tree |-> tree, nodeId |-> existingChildId]
       ELSE [ tree |-> [ rootId |-> tree.rootId,
                         nextId |-> tree.nextId + 1,
                         nodes |-> SetNode(withNode, parentId,
                                     [parent EXCEPT !.children = Append(parent.children, nodeId)]) ],
              nodeId |-> nodeId ]

RECURSIVE buildPathFrom(_, _, _)
buildPathFrom(tree, cursor, path) ==
  IF cursor = Null \/ ~HasNode(tree, cursor) THEN path
  ELSE buildPathFrom(tree, tree.nodes[cursor].parentId, <<tree.nodes[cursor]>> \o path)

buildPath(tree, nodeId) == buildPathFrom(tree, nodeId, <<>>)

RemoveId(seq, id) == SelectSeq(seq, LAMBDA x : x # id)

\* the loop of removeBranch without the push of the children
RECURSIVE removeBranchLoopShallow(_, _)
removeBranchLoopShallow(nextNodes, queue) ==
  IF Len(queue) = 0 THEN nextNodes
  ELSE IF queue[Len(queue)] \notin DOMAIN nextNodes
  THEN removeBranchLoopShallow(nextNodes, SubSeq(queue, 1, Len(queue) - 1))
  ELSE removeBranchLoopShallow([k \in (DOMAIN nextNodes) \ {queue[Len(queue)]} |-> nextNodes[k]],
                               SubSeq(queue, 1, Len(queue) - 1))

\* the while loop of removeBranch: pop the last id of the queue, push its
\* children, delete it
RECURSIVE removeBranchLoop(_, _)
removeBranchLoop(nextNodes, queue) ==
  IF Len(queue) = 0 THEN nextNodes
  ELSE
    LET nodeId == queue[Len(queue)]
        rest == SubSeq(queue, 1, Len(queue) - 1)
    IN IF nodeId \notin DOMAIN nextNodes THEN removeBranchLoop(nextNodes, rest)
       ELSE removeBranchLoop([k \in (DOMAIN nextNodes) \ {nodeId} |-> nextNodes[k]],
                             rest \o nextNodes[nodeId].children)

\* removeBranch that leaves the id in the children of the parent
removeBranchKeepsParentRef(tree, branchRootId) ==
  IF ~HasNode(tree, branchRootId) \/ tree.nodes[branchRootId].parentId = Null THEN tree
  ELSE [tree EXCEPT !.nodes = removeBranchLoop(tree.nodes, <<branchRootId>>)]

removeBranch(tree, branchRootId) ==
  IF ~HasNode(tree, branchRootId) \/ tree.nodes[branchRootId].parentId = Null THEN tree
  ELSE
    LET branchRoot == tree.nodes[branchRootId]
        nextNodes == removeBranchLoop(tree.nodes, <<branchRootId>>)
        parentId == branchRoot.parentId
    IN [tree EXCEPT !.nodes =
          IF parentId \in DOMAIN nextNodes
          THEN [nextNodes EXCEPT ![parentId].children = RemoveId(nextNodes[parentId].children, branchRootId)]
          ELSE nextNodes]

\* ------------------------------------------------------------------------
\* Text: character classes and string primitives (JavaScript String methods)
\* ------------------------------------------------------------------------
Digits == {"0", "1", "2", "3", "4", "5", "6", "7", "8", "9"}

\* /\s/
IsSpace(c) == c \in {" ", "\n", "\t", "\r"}

\* first index k >= i with text[k] \in S, Len(text) + 1 when none
FindFrom(text, i, S) ==
  LET hits == {k \in i..Len(text) : text[k] \in S}
  IN IF hits = {} THEN Len(text) + 1 ELSE Min(hits)

\* first index k >= i with text[k] \notin S, Len(text) + 1 when none
SkipFrom(text, i, S) ==
  LET hits == {k \in i..Len(text) : text[k] \notin S}
  IN IF hits = {} THEN Len(text) + 1 ELSE Min(hits)

\* String.prototype.trim
Trim(text) ==
  LET keep == {k \in 1..Len(text) : ~IsSpace(text[k])}
  IN IF keep = {} THEN <<>> ELSE SubSeq(text, Min(keep), Max(keep))

StartsWith(text, prefix) ==
  Len(text) >= Len(prefix) /\ SubSeq(text, 1, Len(prefix)) = prefix

StartsWithAt(text, i, prefix) ==
  i + Len(prefix) - 1 <= Len(text) /\ SubSeq(text, i, i + Len(prefix) - 1) = prefix

\* Array.prototype.join
RECURSIVE Join(_, _)
Join(parts, sep) ==
  IF Len(parts) = 0 THEN <<>>
  ELSE IF Len(parts) = 1 THEN parts[1]
  ELSE parts[1] \o sep \o Join(Tail(parts), sep)

\* text.replace(/\r\n/g, '\n')
RECURSIVE ReplaceCrLfAt(_, _)
ReplaceCrLfAt(text, hits) ==
  IF hits = {} THEN text
  ELSE SubSeq(text, 1, Min(hits) - 1) \o <<"\n">>
         \o ReplaceCrLfAt(SubSeq(text, Min(hits) + 2, Len(text)),
                          {k - Min(hits) - 1 : k \in hits \ {Min(hits), Min(hits) + 1}})

ReplaceCrLf(text) ==
  ReplaceCrLfAt(text, {k \in 1..(Len(text) - 1) : text[k] = "\r" /\ text[k + 1] = "\n"})

\* text.split('\n')
RECURSIVE SplitLinesAt(_, _)
SplitLinesAt(text, k) ==
  IF k > Len(text) THEN <<text>>
  ELSE <<SubSeq(text, 1, k - 1)>>
         \o SplitLinesAt(SubSeq(text, k + 1, Len(text)),
                         FindFrom(SubSeq(text, k + 1, Len(text)), 1, {"\n"}))

SplitLines(text) == SplitLinesAt(text, FindFrom(text, 1, {"\n"}))

EventTag == <<"[", "E", "v", "e", "n", "t", " ">>

\* text.split(/\n{2,}(?=\[Event )/g) when needEvent, text.split(/\n{2,}/g)
\* otherwise: a separator is a maximal run of two or more newlines (followed
\* by "[Event " when needEvent)
RECURSIVE SplitGamesFrom(_, _, _, _)
SplitGamesFrom(text, start, i, needEvent) ==
  IF i > Len(text) THEN <<SubSeq(text, start, Len(text))>>
  ELSE IF text[i] # "\n" THEN SplitGamesFrom(text, start, FindFrom(text, i, {"\n"}), needEvent)
  ELSE IF SkipFrom(text, i, {"\n"}) - i >= 2
          /\ (~needEvent \/ StartsWithAt(text, SkipFrom(text, i, {"\n"}), EventTag))
  THEN <<SubSeq(text, start, i - 1)>>
         \o SplitGamesFrom(text, SkipFrom(text, i, {"\n"}), SkipFrom(text, i, {"\n"}), needEvent)
  ELSE SplitGamesFrom(text, start, SkipFrom(text, i, {"\n"}), needEvent)

TrimAll(parts) == [k \in 1..Len(parts) |-> Trim(parts[k])]

NonEmpty(parts) == SelectSeq(parts, LAMBDA part : part # <<>>)

SplitNormalized(normalized) ==
  IF normalized = <<>> THEN <<>>
  ELSE IF Len(NonEmpty(TrimAll(SplitGamesFrom(normalized, 1, 1, TRUE)))) > 0
  THEN NonEmpty(TrimAll(SplitGamesFrom(normalized, 1, 1, TRUE)))
  ELSE NonEmpty(TrimAll(SplitGamesFrom(normalized, 1, 1, FALSE)))

splitPgnGames(pgn) == SplitNormalized(Trim(ReplaceCrLf(pgn)))

\* ------------------------------------------------------------------------
\* Tokenizer
\* ------------------------------------------------------------------------
LParen == <<"(">>

RParen == <<")">>

WordEnd(text, i) == FindFrom(text, i, {" ", "\n", "\t", "\r", "(", ")", "{", ";"})

AppendNonEmpty(tokens, token) == IF token # <<>> THEN Append(tokens, token) ELSE tokens

RECURSIVE tokenizeFrom(_, _, _)
tokenizeFrom(text, i, tokens) ==
  IF i > Len(text) THEN tokens
  ELSE IF IsSpace(text[i]) THEN tokenizeFrom(text, SkipFrom(text, i, {" ", "\n", "\t", "\r"}), tokens)
  ELSE IF text[i] = "{" THEN tokenizeFrom(text, Min({FindFrom(text, i + 1, {"}"}) + 1, Len(text) + 1}), tokens)
  ELSE IF text[i] = ";" THEN tokenizeFrom(text, FindFrom(text, i + 1, {"\n"}), tokens)
  ELSE IF text[i] = "(" \/ text[i] = ")" THEN tokenizeFrom(text, i + 1, Append(tokens, <<text[i]>>))
  ELSE tokenizeFrom(text, WordEnd(text, i),
                    AppendNonEmpty(tokens, Trim(SubSeq(text, i, WordEnd(text, i) - 1))))

tokenizeMovetext(text) == tokenizeFrom(text, 1, <<>>)

ResultTokens ==
  { <<"*">>, <<"1", "-", "0">>, <<"0", "-", "1">>,
    <<"1", "/", "2", "-", "1", "/", "2">> }

\* number of leading digits of a token
LeadingDigits(token) == SkipFrom(token, 1, Digits) - 1

\* number of trailing characters of a token that belong to S
TrailingIn(token, S) ==
  LET bad == {k \in 1..Len(token) : token[k] \notin S}
  IN IF bad = {} THEN Len(token) ELSE Len(token) - Max(bad)

\* the token without its first n characters is "." or "..."
IsMoveNumberWith(token, n) ==
  n >= 1 /\ SubSeq(token, n + 1, Len(token)) \in {<<".">>, <<".", ".", ".">>}

isIgnorablePgnToken(token) ==
  \/ token = <<>>
  \/ token \in ResultTokens
  \/ (Len(token) >= 2 /\ token[1] = "$" /\ TrailingIn(token, Digits) = Len(token) - 1)
  \/ IsMoveNumberWith(token, LeadingDigits(token))

\* while (/^\d+\.(\.\.)?/.test(value)) value = value.replace(/^\d+\.(\.\.)?/, '')
RECURSIVE StripMoveNumbersAt(_, _)
StripMoveNumbersAt(value, n) ==
  IF n >= 1 /\ n + 1 <= Len(value) /\ value[n + 1] = "."
  THEN IF StartsWithAt(value, n + 2, <<".", ".">>)
       THEN StripMoveNumbersAt(SubSeq(value, n + 4, Len(value)),
                               LeadingDigits(SubSeq(value, n + 4, Len(value))))
       ELSE StripMoveNumbersAt(SubSeq(value, n + 2, Len(value)),
                               LeadingDigits(SubSeq(value, n + 2, Len(value))))
  ELSE value

StripMoveNumbers(value) == StripMoveNumbersAt(value, LeadingDigits(value))

\* value.replace(/(?:\$\d+)+$/, '')
RECURSIVE StripTrailingNagsAt(_, _)
StripTrailingNagsAt(value, d) ==
  IF d >= 1 /\ d < Len(value) /\ value[Len(value) - d] = "$"
  THEN StripTrailingNagsAt(SubSeq(value, 1, Len(value) - d - 1),
                           TrailingIn(SubSeq(value, 1, Len(value) - d - 1), Digits))
  ELSE value

StripTrailingNags(value) == StripTrailingNagsAt(value, TrailingIn(value, Digits))

\* value.replace(/^\.\.\./, '')
StripLeadingDots(value) ==
  IF StartsWith(value, <<".", ".", ".">>) THEN SubSeq(value, 4, Len(value)) ELSE value

\* value.replace(/[!?]+$/g, '')
StripTrailingMarks(value) == SubSeq(value, 1, Len(value) - TrailingIn(value, {"!", "?"}))

\* value.replace(/\*$/, '')
StripTrailingStar(value) ==
  IF Len(value) >= 1 /\ value[Len(value)] = "*" THEN SubSeq(value, 1, Len(value) - 1) ELSE value

SanOrNull(value) == IF value = <<>> \/ value \in ResultTokens THEN Null ELSE value

sanitizeSanToken(token) ==
  IF Trim(token) = <<>> THEN Null
  ELSE SanOrNull(Trim(StripTrailingStar(StripTrailingMarks(StripTrailingNags(
                   StripLeadingDots(StripMoveNumbers(Trim(token))))))))

\* ------------------------------------------------------------------------
\* Variation parser
\* ------------------------------------------------------------------------
\* chunk.split('\n').filter(line => !line.trim().startsWith('[')).join(' ').trim()
MovetextOf(chunk) ==
  Trim(Join(SelectSeq(SplitLines(chunk), LAMBDA line : ~StartsWith(Trim(line), <<"[">>)), <<" ">>))

\* parseSequence: the result is the tree after the sequence, the index after
\* it, and whether chess.move threw.  Indices are 1-based (tokens[index] of
\* the code is tokens[index + 1] here).  throws tells what chess.move does
\* with a move it rejects: raise (TRUE) or return null (FALSE).
RECURSIVE parseSequenceLoop(_, _, _, _, _, _, _, _, _)
\* index = parseSequence(...); continue
AfterVariation(tokens, sub, chess, nodeId, lastBranchFen, lastBranchNodeId, stopOnRightParen, throws) ==
  IF sub.threw THEN sub
  ELSE parseSequenceLoop(tokens, sub.tree, chess, nodeId, sub.index, lastBranchFen,
                         lastBranchNodeId, stopOnRightParen, throws)

\* a parser that does not remember where the last move branched off
AfterMoveForgetsBranch(tokens, ensured, chess, after, nodeId, next, stopOnRightParen, throws) ==
  parseSequenceLoop(tokens, ensured.tree, after, ensured.nodeId, next, NullFen, Null,
                    stopOnRightParen, throws)

\* lastBranchFen = branchFen; lastBranchNodeId = branchNodeId; nodeId = ensureChildNode(...)
AfterMove(tokens, ensured, chess, after, nodeId, next, stopOnRightParen, throws) ==
  parseSequenceLoop(tokens, ensured.tree, after, ensured.nodeId, next, chess, nodeId,
                    stopOnRightParen, throws)

\* const move = chess.move(san); if (!move) continue
TryMove(tokens, tree, chess, nodeId, next, lastBranchFen, lastBranchNodeId, stopOnRightParen, throws, move) ==
  IF move = NoMove
  THEN IF throws THEN [tree |-> tree, index |-> next, threw |-> TRUE]
       ELSE parseSequenceLoop(tokens, tree, chess, nodeId, next, lastBranchFen,
                              lastBranchNodeId, stopOnRightParen, throws)
  ELSE AfterMove(tokens, ensureChildNode(tree, nodeId, move, ChessAfter(chess, move)), chess,
                 ChessAfter(chess, move), nodeId, next, stopOnRightParen, throws)

\* const san = sanitizeSanToken(token); if (!san) continue
TrySan(tokens, tree, chess, nodeId, next, lastBranchFen, lastBranchNodeId, stopOnRightParen, throws, san) ==
  IF san = Null
  THEN parseSequenceLoop(tokens, tree, chess, nodeId, next, lastBranchFen, lastBranchNodeId,
                         stopOnRightParen, throws)
  ELSE TryMove(tokens, tree, chess, nodeId, next, lastBranchFen, lastBranchNodeId,
               stopOnRightParen, throws, ChessMoveSan(chess, san))

parseSequenceLoop(tokens, tree, chess, nodeId, index, lastBranchFen, lastBranchNodeId, stopOnRightParen, throws) ==
  IF index > Len(tokens) THEN [tree |-> tree, index |-> index, threw |-> FALSE]
  ELSE IF tokens[index] = RParen
  THEN IF stopOnRightParen THEN [tree |-> tree, index |-> index + 1, threw |-> FALSE]
       ELSE parseSequenceLoop(tokens, tree, chess, nodeId, index + 1, lastBranchFen,
                              lastBranchNodeId, stopOnRightParen, throws)
  ELSE IF tokens[index] = LParen
  THEN AfterVariation(tokens,
                      parseSequenceLoop(tokens, tree,
                                        IF lastBranchFen # NullFen /\ lastBranchNodeId # Null
                                        THEN lastBranchFen ELSE chess,
                                        IF lastBranchFen # NullFen /\ lastBranchNodeId # Null
                                        THEN lastBranchNodeId ELSE nodeId,
                                        index + 1, NullFen, Null, TRUE, throws),
                      chess, nodeId, lastBranchFen, lastBranchNodeId, stopOnRightParen, throws)
  ELSE IF isIgnorablePgnToken(tokens[index])
  THEN parseSequenceLoop(tokens, tree, chess, nodeId, index + 1, lastBranchFen,
                         lastBranchNodeId, stopOnRightParen, throws)
  ELSE TrySan(tokens, tree, chess, nodeId, index + 1, lastBranchFen, lastBranchNodeId,
              stopOnRightParen, throws, sanitizeSanToken(tokens[index]))

parseSequence(tokens, tree, startChess, startNodeId, startIndex, stopOnRightParen, throws) ==
  parseSequenceLoop(tokens, tree, startChess, startNodeId, startIndex, NullFen, Null,
                    stopOnRightParen, throws)

\* the part of parsePgnChunkIntoTree after the movetext is extracted
ParseMovetext(tree, movetext, tokens, throws) ==
  IF movetext = <<>> \/ Len(tokens) = 0 THEN [tree |-> tree, index |-> 0, threw |-> FALSE]
  ELSE parseSequence(tokens, tree, START_POS_FEN, tree.rootId, 1, FALSE, throws)

parsePgnChunkIntoTree(tree, chunk, throws) ==
  ParseMovetext(tree, MovetextOf(chunk), tokenizeMovetext(MovetextOf(chunk)), throws)

\* the for loop of parsePgnToTree
RECURSIVE parseChunks(_, _, _)
AfterChunk(one, candidates, throws) ==
  IF one.threw THEN one ELSE parseChunks(one.tree, Tail(candidates), throws)

parseChunks(tree, candidates, throws) ==
  IF Len(candidates) = 0 THEN [tree |-> tree, index |-> 0, threw |-> FALSE]
  ELSE AfterChunk(parsePgnChunkIntoTree(tree, candidates[1], throws), candidates, throws)

\* parsePgnToTree(side, pgn, initialTree); base is initialTree ?? createEmptyTree(side)
parsePgnToTree(base, pgn, throws) == parseChunks(base, splitPgnGames(pgn), throws)

\* ------------------------------------------------------------------------
\* PGN exporter
\* ------------------------------------------------------------------------
DigitChar(d) ==
  CASE d = 0 -> "0" [] d = 1 -> "1" [] d = 2 -> "2" [] d = 3 -> "3" [] d = 4 -> "4"
    [] d = 5 -> "5" [] d = 6 -> "6" [] d = 7 -> "7" [] d = 8 -> "8" [] d = 9 -> "9"

\* `${n}`
RECURSIVE NumToText(_)
NumToText(n) == IF n < 10 THEN <<DigitChar(n)>> ELSE NumToText(n \div 10) \o <<DigitChar(n % 10)>>

formatMovePrefix(chess) ==
  IF ChessTurn(chess) = "w" THEN NumToText(ChessMoveNumber(chess)) \o <<".">>
  ELSE NumToText(ChessMoveNumber(chess)) \o <<".", ".", ".">>

\* an export of the main line alone
MainLineOnlyTokens(tree, node, alternativeChildIds) == <<>>

RECURSIVE buildVariationTokens(_, _, _)
RECURSIVE AlternativeTokens(_, _, _)
\* the for loop over alternativeChildIds
AlternativeTokens(tree, node, alternativeChildIds) ==
  IF Len(alternativeChildIds) = 0 THEN <<>>
  ELSE
    LET alternativeChildId == alternativeChildIds[1]
        altNode == tree.nodes[alternativeChildId]
        altInput == uciToMoveInput(altNode.moveUci)
        altChess == IF node.fen = START_FEN THEN START_POS_FEN ELSE node.fen
        altPrefix == formatMovePrefix(altChess)
        altMove == ChessMoveInput(altChess, altInput)
        altTokens == <<altPrefix, altMove.san>>
                       \o buildVariationTokens(tree, alternativeChildId, ChessAfter(altChess, altMove))
        rest == AlternativeTokens(tree, node, Tail(alternativeChildIds))
    IN IF altNode.moveUci = Null \/ altInput = NoMove \/ altMove = NoMove THEN rest
       ELSE << <<"(">> \o Join(altTokens, <<" ">>) \o <<")">> >> \o rest

buildVariationTokens(tree, nodeId, chess) ==
  IF ~HasNode(tree, nodeId) THEN <<>>
  ELSE
    LET node == tree.nodes[nodeId]
        children == SelectSeq(node.children,
                              LAMBDA childId : HasNode(tree, childId) /\ tree.nodes[childId].moveUci # Null)
        mainChildId == children[1]
        mainNode == tree.nodes[mainChildId]
        mainInput == uciToMoveInput(mainNode.moveUci)
        mainPrefix == formatMovePrefix(chess)
        mainMove == ChessMoveInput(chess, mainInput)
    IN IF Len(node.children) = 0 \/ Len(children) = 0 THEN <<>>
       ELSE IF mainInput = NoMove \/ mainMove = NoMove THEN <<>>
       ELSE <<mainPrefix, mainMove.san>>
              \o AlternativeTokens(tree, node, Tail(children))
              \o buildVariationTokens(tree, mainChildId, ChessAfter(chess, mainMove))

\* new Date().toISOString().slice(0, 10).replace(/-/g, '.')
ExportDate == <<"2", "0", "2", "6", ".", "0", "1", ".", "0", "1">>

HeaderLine(key, value) == <<"[">> \o key \o <<" ", "\"">> \o value \o <<"\"", "]">>

TextEvent == <<"E", "v", "e", "n", "t">>

TextSite == <<"S", "i", "t", "e">>

TextDate == <<"D", "a", "t", "e">>

TextRound == <<"R", "o", "u", "n", "d">>

TextWhite == <<"W", "h", "i", "t", "e">>

TextBlack == <<"B", "l", "a", "c", "k">>

TextResult == <<"R", "e", "s", "u", "l", "t">>

TextTrainer == <<"O", "p", "e", "n", "i", "n", "g", " ", "P", "r", "e", "p", " ", "T", "r", "a", "i", "n", "e", "r">>

TextTrainerDash == <<"O", "p", "e", "n", "i", "n", "g", " ", "P", "r", "e", "p", " ", "T", "r", "a", "i", "n", "e", "r", " ", "-", " ">>

TextLocal == <<"L", "o", "c", "a", "l">>

TextRepertoire == <<"R", "e", "p", "e", "r", "t", "o", "i", "r", "e">>

TextOpponent == <<"O", "p", "p", "o", "n", "e", "n", "t">>

TextUntitled == <<"U", "n", "t", "i", "t", "l", "e", "d", " ", "r", "e", "p", "e", "r", "t", "o", "i", "r", "e">>

\* value.trim().replace(/\s+/g, ' ') || 'Untitled repertoire'
RECURSIVE CollapseSpaces(_)
CollapseSpaces(text) ==
  LET k == FindFrom(text, 1, {" ", "\n", "\t", "\r"})
  IN IF k > Len(text) THEN text
     ELSE SubSeq(text, 1, k - 1) \o <<" ">>
            \o CollapseSpaces(SubSeq(text, SkipFrom(text, k, {" ", "\n", "\t", "\r"}), Len(text)))

normalizeRepertoireName(value) ==
  LET trimmed == CollapseSpaces(Trim(value))
  IN IF trimmed = <<>> THEN TextUntitled ELSE trimmed

\* value.replace(/"/g, '\\"')
RECURSIVE EscapeQuotes(_)
EscapeQuotes(text) ==
  LET k == FindFrom(text, 1, {"\""})
  IN IF k > Len(text) THEN text
     ELSE SubSeq(text, 1, k - 1) \o <<"\\", "\"">> \o EscapeQuotes(SubSeq(text, k + 1, Len(text)))

\* repertoireName = <<>> stands for an absent name
exportTreeToPgn(tree, side, repertoireName) ==
  LET safeName == IF repertoireName # <<>> THEN normalizeRepertoireName(repertoireName) ELSE <<>>
      headers ==
        << <<TextEvent, IF safeName # <<>> THEN TextTrainerDash \o safeName ELSE TextTrainer>>,
           <<TextSite, TextLocal>>,
           <<TextDate, ExportDate>>,
           <<TextRound, <<"-">> >>,
           <<TextWhite, IF side = "white" THEN TextRepertoire ELSE TextOpponent>>,
           <<TextBlack, IF side = "black" THEN TextRepertoire ELSE TextOpponent>>,
           <<TextResult, <<"*">> >> >>
      headerBlock == Join([k \in 1..Len(headers) |->
                             HeaderLine(headers[k][1], EscapeQuotes(headers[k][2]))], <<"\n">>)
      moveTokens == buildVariationTokens(tree, tree.rootId, START_POS_FEN)
      moveText == IF Len(moveTokens) > 0 THEN Join(moveTokens, <<" ">>) \o <<" ", "*">> ELSE <<"*">>
  IN headerBlock \o <<"\n", "\n">> \o moveText

\* ------------------------------------------------------------------------
\* PGN texts offered to the import dialog
\* ------------------------------------------------------------------------
\* "1. e4 e5 2. Nf3 (2. Bc4 Bc5) Nc6"
PgnVariation == <<"1", ".", " ", "e", "4", " ", "e", "5", " ", "2", ".", " ", "N", "f", "3", " ", "(", "2", ".", " ", "B", "c", "4", " ", "B", "c", "5", ")", " ", "N", "c", "6">>

\* "1. e4 Qh5 e5 2. Nf3": Qh5 is rejected by the oracle
PgnIllegal == <<"1", ".", " ", "e", "4", " ", "Q", "h", "5", " ", "e", "5", " ", "2", ".", " ", "N", "f", "3">>

\* "1. Nf3 {Reti} Nc6 $1 *\n\n1. e4! ; king pawn\ne5": two games, no headers
PgnTwoGames == <<"1", ".", " ", "N", "f", "3", " ", "{", "R", "e", "t", "i", "}", " ", "N", "c", "6", " ", "$", "1", " ", "*", "\n", "\n", "1", ".", " ", "e", "4", "!", " ", ";", " ", "k", "i", "n", "g", " ", "p", "a", "w", "n", "\n", "e", "5">>

PgnTexts == {PgnVariation, PgnIllegal, PgnTwoGames}

\* ------------------------------------------------------------------------
\* Application state (the useState cells of App)
\* ------------------------------------------------------------------------
VARIABLES
  trees,                    \* side -> working MoveTree
  selectedNodeBySide,       \* side -> cursor node id
  repertoiresBySide,        \* side -> sequence of RepertoireEntry
  activeRepertoireIdBySide, \* side -> entry id, Null in browse mode
  repertoireSide,           \* the active side
  isTempBoardFlipped,
  undoStackBySide,          \* side -> sequence of UndoSnapshot, newest last
  trainingSession,          \* TrainingSession, NoTraining when null
  hasHydratedAppState,
  lichessStatus,            \* "idle", "loading", "done", "error"
  lichessData,              \* the statistics held, NoLichessData when null
  repertoireIdSeq,          \* number of repertoire ids handed out so far
  oracleThrows,             \* whether chess.move raises on a rejected move
  pendingEffects,           \* <<state>> the effects of the last commit lead to, <<>> when none is due
  steps,                    \* number of handler runs so far
  lastOp,                   \* the step taken last and its input
  labTree,                  \* a MoveTree the tree functions are applied to
  labRemoved,               \* the ids removeBranch has removed from labTree
  labLast,                  \* the function applied last, its input and the tree it was given
  labSteps,                 \* number of functions applied so far
  storedValue,              \* what readPersistedState yields to the loader
  loaded,                   \* what the loader made of storedValue, NotLoaded before it ran
  heap,                     \* the objects the tree functions have allocated, by address
  heapTree,                 \* the address of the MoveTree object held as the working tree
  heapSnapshots,            \* the tree objects held before, each with the value it had then
  saveTimers,               \* the payloads of the save timeouts set and not yet cleared or run
  idbQueue,                 \* the payloads idbSet was called with and has not settled, oldest first
  idbValue,                 \* the value the store holds under APP_STATE_KEY
  saveStatus,               \* the status text the save reports: "" or "Local save failed"
  lichessRuns,              \* the statistics requests set up and not yet over, oldest first
  lichessRunSeq,            \* number of statistics requests set up so far
  lichessDataRun,           \* the request whose response lichessData holds, 0 when none
  engineRunning,            \* the engine switch
  engineReady,              \* engineReadyRef
  isSearching,              \* isSearchingRef
  pendingAnalysis,          \* pendingAnalysisRef: the fen to analyse next, NullFen when null
  engineLines,              \* multipv -> the search whose output the line shows
  treeEval,                 \* the tree evaluation: its phase, nodes left, cancel flag
  workerInbox,              \* the commands posted to the worker it has not taken, oldest first
  workerSearch,             \* the search the worker runs, NoSearch when it runs none
  workerOutbox,             \* the messages the worker posted that onmessage has not handled
  goSeq,                    \* number of go commands posted so far
  pendingImport             \* the importPgn calls waiting for file.text(), with what they closed over

vars ==
  << trees, selectedNodeBySide, repertoiresBySide, activeRepertoireIdBySide, repertoireSide,
     isTempBoardFlipped, undoStackBySide, trainingSession, hasHydratedAppState, lichessStatus,
     lichessData, repertoireIdSeq, oracleThrows, pendingEffects, steps, lastOp,
     labTree, labRemoved, labLast, labSteps, storedValue, loaded, heap, heapTree, heapSnapshots,
     saveTimers, idbQueue, idbValue, saveStatus, lichessRuns, lichessRunSeq, lichessDataRun,
     engineRunning, engineReady, isSearching, pendingAnalysis, engineLines, treeEval,
     workerInbox, workerSearch, workerOutbox, goSeq, pendingImport >>

labVars == <<labTree, labRemoved, labLast, labSteps>>

loaderVars == <<storedValue, loaded>>

heapVars == <<heap, heapTree, heapSnapshots>>

saveVars == <<saveTimers, idbQueue, idbValue, saveStatus>>

\* the variables of the asynchronous collaborators
statsVars == <<lichessRuns, lichessRunSeq, lichessDataRun>>

engineVars ==
  << engineRunning, engineReady, isSearching, pendingAnalysis, engineLines, treeEval,
     workerInbox, workerSearch, workerOutbox, goSeq >>

asyncVars == <<saveVars, statsVars, engineVars>>

appVars ==
  << trees, selectedNodeBySide, repertoiresBySide, activeRepertoireIdBySide, repertoireSide,
     isTempBoardFlipped, undoStackBySide, trainingSession, hasHydratedAppState, lichessStatus,
     lichessData, repertoireIdSeq, pendingEffects, steps, lastOp >>

\* the program state as one value, so that a handler is a function of it
App ==
  [ trees |-> trees,
    selectedNodeBySide |-> selectedNodeBySide,
    repertoiresBySide |-> repertoiresBySide,
    activeRepertoireIdBySide |-> activeRepertoireIdBySide,
    repertoireSide |-> repertoireSide,
    isTempBoardFlipped |-> isTempBoardFlipped,
    undoStackBySide |-> undoStackBySide,
    trainingSession |-> trainingSession,
    hasHydratedAppState |-> hasHydratedAppState,
    lichessStatus |-> lichessStatus,
    lichessData |-> lichessData,
    repertoireIdSeq |-> repertoireIdSeq ]

NoTraining ==
  [ side |-> "none", rootNodeId |-> Null, hintRequested |-> FALSE, hintVisible |-> FALSE,
    hintMoveUci |-> Null ]

NoLichessData == [fen |-> NullFen, moves |-> <<>>]

OtherSide(side) == IF side = "white" THEN "black" ELSE "white"

\* `${side}-${Date.now().toString(36)}-${randomPart}`: a fresh id each call
createRepertoireId(side, seq) == <<side, seq + 1>>

createEmptyRepertoire(side, name, seq) ==
  [ id |-> createRepertoireId(side, seq),
    name |-> normalizeRepertoireName(name),
    tree |-> createEmptyTree(side),
    selectedNodeId |-> createEmptyTree(side).rootId ]

TextDefault == <<"D", "e", "f", "a", "u", "l", "t">>

\* ------------------------------------------------------------------------
\* Values derived at render time
\* ------------------------------------------------------------------------
\* index of the entry with that id in the list, 0 when absent
EntryIndex(list, id) ==
  LET hits == {i \in 1..Len(list) : list[i].id = id}
  IN IF hits = {} THEN 0 ELSE Min(hits)

isBrowseMode(s) ==
  \/ s.activeRepertoireIdBySide[s.repertoireSide] = Null
  \/ EntryIndex(s.repertoiresBySide[s.repertoireSide], s.activeRepertoireIdBySide[s.repertoireSide]) = 0

boardOrientation(s) ==
  IF s.isTempBoardFlipped THEN OtherSide(s.repertoireSide) ELSE s.repertoireSide

\* tree.nodes[id] ?? tree.nodes[tree.rootId]
NodeOrRoot(tree, id) == IF HasNode(tree, id) THEN tree.nodes[id] ELSE tree.nodes[tree.rootId]

selectedNode(s) == NodeOrRoot(s.trees[s.repertoireSide], s.selectedNodeBySide[s.repertoireSide])

isTrainingActive(s) == s.trainingSession # NoTraining /\ s.trainingSession.side = s.repertoireSide

\* the moves offered in browse mode: children of every node, in every entry
\* of the active side, whose fen equals the cursor's fen
BrowseOptionUcis(s) ==
  LET list == s.repertoiresBySide[s.repertoireSide]
      currentFen == selectedNode(s).fen
  IN UNION { UNION { { list[i].tree.nodes[childId].moveUci :
                         childId \in { c \in Range(list[i].tree.nodes[id].children) :
                                         /\ HasNode(list[i].tree, c)
                                         /\ list[i].tree.nodes[c].moveUci # Null
                                         /\ list[i].tree.nodes[c].moveSan # Null } } :
                     id \in { n \in DOMAIN list[i].tree.nodes : list[i].tree.nodes[n].fen = currentFen } } :
             i \in 1..Len(list) }

\* displayedChildNodes.length
DisplayedChildCount(s) ==
  IF isBrowseMode(s) THEN Cardinality(BrowseOptionUcis(s))
  ELSE Len(SelectSeq(selectedNode(s).children, LAMBDA id : HasNode(s.trees[s.repertoireSide], id)))

canStartTraining(s) == DisplayedChildCount(s) > 0

isTrainingLineEnd(s) == isTrainingActive(s) /\ DisplayedChildCount(s) = 0

canGoBack(s) == selectedNode(s).parentId # Null

\* ------------------------------------------------------------------------
\* Effects that follow every commit
\* ------------------------------------------------------------------------
\* a push that keeps the oldest snapshots: [...stack, snapshot].slice(0, 200)
PushUndoKeepsOldest(stack, snapshot) ==
  LET pushed == Append(stack, snapshot)
  IN IF Len(pushed) > UndoLimit THEN SubSeq(pushed, 1, UndoLimit) ELSE pushed

\* [...stack, snapshot].slice(-200)
PushUndo(stack, snapshot) ==
  LET pushed == Append(stack, snapshot)
  IN IF Len(pushed) > UndoLimit
     THEN SubSeq(pushed, Len(pushed) - UndoLimit + 1, Len(pushed))
     ELSE pushed

PopularityOf(moves, uci) == IF uci \in DOMAIN moves THEN moves[uci] ELSE 0

\* [...children].sort((a, b) => bPop - aPop): stable, most popular first
SortByPopularity(tree, children, moves) ==
  LET pop(i) == PopularityOf(moves, IF HasNode(tree, children[i]) THEN tree.nodes[children[i]].moveUci ELSE Null)
      rank(i) == Cardinality({j \in 1..Len(children) : pop(j) > pop(i)})
                   + Cardinality({j \in 1..(i - 1) : pop(j) = pop(i)}) + 1
  IN [r \in 1..Len(children) |-> children[CHOOSE i \in 1..Len(children) : rank(i) = r]]

\* the popularity re-sort effect
ResortEffect(s) ==
  LET activeSide == s.repertoireSide
      currentTree == s.trees[activeSide]
      currentNodeId == s.selectedNodeBySide[activeSide]
      currentNode == currentTree.nodes[currentNodeId]
      reorderedChildren == SortByPopularity(currentTree, currentNode.children, s.lichessData.moves)
  IN IF isBrowseMode(s) THEN s
     ELSE IF s.lichessStatus # "done" \/ DOMAIN s.lichessData.moves = {} THEN s
     ELSE IF ~HasNode(currentTree, currentNodeId) \/ Len(currentNode.children) < 2 THEN s
     ELSE IF reorderedChildren = currentNode.children THEN s
     ELSE [s EXCEPT !.trees[activeSide].nodes[currentNodeId].children = reorderedChildren]

\* a teardown that looks at the session's root only
TrainingTeardownOnRootOnly(s) ==
  IF s.trainingSession = NoTraining THEN s
  ELSE IF ~HasNode(s.trees[s.trainingSession.side], s.trainingSession.rootNodeId)
       THEN [s EXCEPT !.trainingSession = NoTraining]
  ELSE s

\* the training teardown effect
TrainingTeardownEffect(s) ==
  IF s.trainingSession = NoTraining THEN s
  ELSE IF s.repertoireSide # s.trainingSession.side THEN [s EXCEPT !.trainingSession = NoTraining]
  ELSE IF ~HasNode(s.trees[s.trainingSession.side], s.trainingSession.rootNodeId)
       THEN [s EXCEPT !.trainingSession = NoTraining]
  ELSE s

SyncEntriesWithoutActive(s, side) ==
  LET activeId == s.activeRepertoireIdBySide[side]
      idx == EntryIndex(s.repertoiresBySide[side], activeId)
  IN IF activeId = Null \/ idx = 0
     THEN [s.repertoiresBySide[side] EXCEPT ![1].tree = s.trees[side],
                                           ![1].selectedNodeId = s.selectedNodeBySide[side]]
     ELSE [s.repertoiresBySide[side] EXCEPT ![idx].tree = s.trees[side],
                                           ![idx].selectedNodeId = s.selectedNodeBySide[side]]

\* a sync that writes the tree and leaves the entry's cursor as it was
SyncEntriesTreeOnly(s, side) ==
  LET activeId == s.activeRepertoireIdBySide[side]
      idx == EntryIndex(s.repertoiresBySide[side], activeId)
  IN IF activeId = Null \/ idx = 0 THEN s.repertoiresBySide[side]
     ELSE [s.repertoiresBySide[side] EXCEPT ![idx].tree = s.trees[side]]

\* the active-entry sync effect
SyncEntries(s, side) ==
  LET activeId == s.activeRepertoireIdBySide[side]
      idx == EntryIndex(s.repertoiresBySide[side], activeId)
  IN IF activeId = Null \/ idx = 0 THEN s.repertoiresBySide[side]
     ELSE [s.repertoiresBySide[side] EXCEPT ![idx].tree = s.trees[side],
                                           ![idx].selectedNodeId = s.selectedNodeBySide[side]]

SyncEffect(s) ==
  IF ~s.hasHydratedAppState THEN s
  ELSE [s EXCEPT !.repertoiresBySide = [side \in Sides |-> SyncEntries(s, side)]]

\* the statistics effect: a change of the position shown, or of the side,
\* starts a new request
StatsEffect(prev, s) ==
  IF selectedNode(prev).fen # selectedNode(s).fen \/ prev.repertoireSide # s.repertoireSide
  THEN [s EXCEPT !.lichessStatus = "loading"]
  ELSE s

\* whether the re-sort effect runs after a commit: one of its dependencies
\* [activeSide, isBrowseMode, lichessData, lichessStatus, selectedNodeBySide]
\* changed (selectedNodeBySide changes whenever the handler sets it)
ResortRuns(prev, s, cursorSet) ==
  \/ cursorSet
  \/ prev.repertoireSide # s.repertoireSide
  \/ isBrowseMode(prev) # isBrowseMode(s)
  \/ prev.lichessData # s.lichessData
  \/ prev.lichessStatus # s.lichessStatus

\* the state once the effects of a commit have run
Settle(prev, s, cursorSet) ==
  LET sorted == IF ResortRuns(prev, s, cursorSet) THEN ResortEffect(s) ELSE s
  IN SyncEffect(TrainingTeardownEffect(StatsEffect(prev, sorted)))

\* ------------------------------------------------------------------------
\* Handlers: each yields the set of states it can set (several when it draws
\* a random number, none when it returns early), with cursorSet telling
\* whether it called setSelectedNodeBySide
\* ------------------------------------------------------------------------
Outcome(s, cursorSet) == [state |-> s, cursorSet |-> cursorSet]

maxSteps == 256

\* sideTree.nodes[cursorId] ?? rootNode
CursorOrRoot(sideTree, cursorId, rootNode) ==
  IF HasNode(sideTree, cursorId) THEN sideTree.nodes[cursorId] ELSE rootNode

\* the for loop of advanceTrainingPosition: every way it can run, as the
\* cursor id it ends with and the number of iterations that descended
RECURSIVE AdvanceRuns(_, _, _, _, _)
AdvanceRuns(sideTree, side, rootNode, cursorId, step) ==
  IF step >= maxSteps THEN {[cursorId |-> cursorId, step |-> step]}
  ELSE IF Len(CursorOrRoot(sideTree, cursorId, rootNode).children) = 0
  THEN {[cursorId |-> cursorId, step |-> step]}
  ELSE IF toTurnColor(CursorOrRoot(sideTree, cursorId, rootNode).fen) = side
  THEN {[cursorId |-> cursorId, step |-> step]}
  ELSE UNION { AdvanceRuns(sideTree, side, rootNode, randomChildId, step + 1) :
                 randomChildId \in Range(CursorOrRoot(sideTree, cursorId, rootNode).children) }

clearTrainingHint(s) ==
  IF s.trainingSession = NoTraining THEN s
  ELSE [s EXCEPT !.trainingSession.hintRequested = FALSE,
                 !.trainingSession.hintVisible = FALSE,
                 !.trainingSession.hintMoveUci = Null]

advanceTrainingPosition(s, side, rootNodeId, startNodeId) ==
  IF ~HasNode(s.trees[side], rootNodeId) THEN {Outcome(s, FALSE)}
  ELSE { Outcome(clearTrainingHint([s EXCEPT !.selectedNodeBySide[side] = cursorId]), TRUE) :
           cursorId \in { run.cursorId :
                             run \in AdvanceRuns(s.trees[side], side, s.trees[side].nodes[rootNodeId],
                                                 startNodeId, 0) } }

startTraining(s) ==
  LET side == s.repertoireSide
      rootNodeId == selectedNode(s).id
      started == [s EXCEPT !.trainingSession =
                    [ side |-> side, rootNodeId |-> rootNodeId, hintRequested |-> FALSE,
                      hintVisible |-> FALSE, hintMoveUci |-> Null ]]
  IN advanceTrainingPosition(started, side, rootNodeId, rootNodeId)

stopTraining(s) == {Outcome([s EXCEPT !.trainingSession = NoTraining], FALSE)}

restartTrainingLine(s) ==
  IF s.trainingSession = NoTraining THEN {}
  ELSE advanceTrainingPosition(clearTrainingHint(s), s.trainingSession.side,
                               s.trainingSession.rootNodeId, s.trainingSession.rootNodeId)

\* the Hint button
showHint(s) ==
  IF s.trainingSession = NoTraining THEN {}
  ELSE {Outcome([s EXCEPT !.trainingSession.hintVisible = TRUE], FALSE)}

\* children.find(id => nodes[id].moveUci === uci) raises when it meets an id
\* that is not in the node map before it finds a match
FindChildRaises(tree, children, uci) ==
  \E i \in 1..Len(children) :
    /\ ~HasNode(tree, children[i])
    /\ \A j \in 1..(i - 1) : tree.nodes[children[j]].moveUci # uci

\* the tree and the node id makeMove goes to outside training
makeMoveTree(currentTree, currentNode, fenAfter, move, existingChildId) ==
  IF existingChildId # Null THEN [tree |-> currentTree, nodeId |-> existingChildId]
  ELSE [ tree |->
           [ currentTree EXCEPT
               !.nextId = currentTree.nextId + 1,
               !.nodes =
                  SetNode(SetNode(currentTree.nodes, createNodeId(currentTree),
                                  [ id |-> createNodeId(currentTree), parentId |-> currentNode.id,
                                    fen |-> fenAfter, moveSan |-> move.san,
                                    moveUci |-> uciFromMove(move), children |-> <<>>,
                                    stockfishEval |-> Null ]),
                          currentNode.id,
                          [currentNode EXCEPT
                             !.children = Append(currentNode.children, createNodeId(currentTree))]) ],
         nodeId |-> createNodeId(currentTree) ]

\* makeMove once the tree to go to is known
makeMoveCommit(s, activeSide, currentTree, currentSelectedId, made) ==
  IF made.nodeId = currentSelectedId THEN {}
  ELSE { Outcome([s EXCEPT
                    !.undoStackBySide[activeSide] =
                       PushUndo(s.undoStackBySide[activeSide],
                                [tree |-> currentTree, selectedNodeId |-> currentSelectedId]),
                    !.trees[activeSide] = made.tree,
                    !.selectedNodeBySide[activeSide] = made.nodeId], TRUE) }

\* makeMove without its training branch
makeMoveIgnoringTraining(s, activeSide, currentTree, currentSelectedId, currentNode, move, existingChildId) ==
  makeMoveCommit(s, activeSide, currentTree, currentSelectedId,
                 makeMoveTree(currentTree, currentNode,
                              ChessAfter(fenToChess(currentNode.fen), move), move, existingChildId))

\* a makeMove that adds the move to the tree when the session has nothing to
\* ask at the cursor
makeMoveLegalAddsAtLineEnd(s, activeSide, currentTree, currentSelectedId, currentNode, move, existingChildId) ==
  IF /\ s.trainingSession # NoTraining /\ s.trainingSession.side = activeSide
     /\ Len(currentNode.children) # 0
     /\ toTurnColor(currentNode.fen) = activeSide
  THEN IF existingChildId = Null
       THEN { Outcome([s EXCEPT !.trainingSession.hintRequested = TRUE,
                                !.trainingSession.hintVisible = FALSE,
                                !.trainingSession.hintMoveUci =
                                   IF HasNode(currentTree, hintChildId)
                                   THEN currentTree.nodes[hintChildId].moveUci ELSE Null], FALSE) :
                hintChildId \in Range(currentNode.children) }
       ELSE advanceTrainingPosition(clearTrainingHint(s), activeSide,
                                    s.trainingSession.rootNodeId, existingChildId)
  ELSE makeMoveCommit(s, activeSide, currentTree, currentSelectedId,
                      makeMoveTree(currentTree, currentNode,
                                   ChessAfter(fenToChess(currentNode.fen), move), move,
                                   existingChildId))

\* a makeMove that leaves the cursor at the child the move leads to
makeMoveLegalStaysAtChild(s, activeSide, currentTree, currentSelectedId, currentNode, move, existingChildId) ==
  IF s.trainingSession # NoTraining /\ s.trainingSession.side = activeSide
  THEN IF Len(currentNode.children) = 0 THEN {Outcome(s, FALSE)}
       ELSE IF toTurnColor(currentNode.fen) # activeSide THEN {Outcome(s, FALSE)}
       ELSE IF existingChildId = Null
       THEN { Outcome([s EXCEPT !.trainingSession.hintRequested = TRUE,
                                !.trainingSession.hintVisible = FALSE,
                                !.trainingSession.hintMoveUci =
                                   IF HasNode(currentTree, hintChildId)
                                   THEN currentTree.nodes[hintChildId].moveUci ELSE Null], FALSE) :
                hintChildId \in Range(currentNode.children) }
       ELSE { Outcome(clearTrainingHint([s EXCEPT !.selectedNodeBySide[activeSide] = existingChildId]), TRUE) }
  ELSE makeMoveCommit(s, activeSide, currentTree, currentSelectedId,
                      makeMoveTree(currentTree, currentNode,
                                   ChessAfter(fenToChess(currentNode.fen), move), move,
                                   existingChildId))

\* makeMove once chess.move has accepted the move
makeMoveLegal(s, activeSide, currentTree, currentSelectedId, currentNode, move, existingChildId) ==
  IF s.trainingSession # NoTraining /\ s.trainingSession.side = activeSide
  THEN IF Len(currentNode.children) = 0 THEN {Outcome(s, FALSE)}
       ELSE IF toTurnColor(currentNode.fen) # activeSide THEN {Outcome(s, FALSE)}
       ELSE IF existingChildId = Null
       THEN { Outcome([s EXCEPT !.trainingSession.hintRequested = TRUE,
                                !.trainingSession.hintVisible = FALSE,
                                !.trainingSession.hintMoveUci =
                                   IF HasNode(currentTree, hintChildId)
                                   THEN currentTree.nodes[hintChildId].moveUci ELSE Null], FALSE) :
                hintChildId \in Range(currentNode.children) }
       ELSE advanceTrainingPosition(clearTrainingHint(s), activeSide,
                                    s.trainingSession.rootNodeId, existingChildId)
  ELSE makeMoveCommit(s, activeSide, currentTree, currentSelectedId,
                      makeMoveTree(currentTree, currentNode,
                                   ChessAfter(fenToChess(currentNode.fen), move), move,
                                   existingChildId))

\* makeMove from the node the cursor is at
makeMoveAt(s, currentNode, move) ==
  IF move = NoMove THEN {}
  ELSE IF FindChildRaises(s.trees[s.repertoireSide], currentNode.children, uciFromMove(move)) THEN {}
  ELSE makeMoveLegal(s, s.repertoireSide, s.trees[s.repertoireSide],
                     s.selectedNodeBySide[s.repertoireSide], currentNode, move,
                     FindChildByUci(s.trees[s.repertoireSide], currentNode.children,
                                    uciFromMove(move)))

makeMove(s, uci) ==
  makeMoveAt(s, selectedNode(s), ChessMoveInput(fenToChess(selectedNode(s).fen), uciToMoveInput(uci)))

\* navigateToNode that moves the cursor and pushes nothing
navigateWithoutPush(s, side, nextId) ==
  IF s.trainingSession # NoTraining /\ s.trainingSession.side = side THEN {}
  ELSE IF s.selectedNodeBySide[side] = nextId THEN {}
  ELSE { Outcome([s EXCEPT !.selectedNodeBySide[side] = nextId], TRUE) }

navigateToNode(s, side, nextId) ==
  LET currentId == s.selectedNodeBySide[side]
  IN IF s.trainingSession # NoTraining /\ s.trainingSession.side = side THEN {}
     ELSE IF currentId = nextId THEN {}
     ELSE { Outcome([s EXCEPT
                       !.undoStackBySide[side] =
                          PushUndo(s.undoStackBySide[side],
                                   [tree |-> s.trees[side], selectedNodeId |-> currentId]),
                       !.selectedNodeBySide[side] = nextId], TRUE) }

goBackOneMove(s) ==
  IF isTrainingActive(s) THEN {}
  ELSE IF selectedNode(s).parentId = Null THEN {}
  ELSE navigateToNode(s, s.repertoireSide, selectedNode(s).parentId)

deleteLastMove(s) ==
  LET activeSide == s.repertoireSide
      branchRootId == selectedNode(s).id
      parentId == selectedNode(s).parentId
  IN IF isTrainingActive(s) THEN {}
     ELSE IF parentId = Null THEN {}
     ELSE { Outcome([s EXCEPT
                       !.undoStackBySide[activeSide] =
                          PushUndo(s.undoStackBySide[activeSide],
                                   [tree |-> s.trees[activeSide], selectedNodeId |-> selectedNode(s).id]),
                       !.trees[activeSide] = removeBranch(s.trees[activeSide], branchRootId),
                       !.selectedNodeBySide[activeSide] = parentId], TRUE) }

\* undoNavigation that restores the newest pair and leaves it on the stack
undoWithoutPop(s) ==
  IF isTrainingActive(s) THEN {}
  ELSE IF Len(s.undoStackBySide[s.repertoireSide]) = 0 THEN {}
  ELSE { Outcome([s EXCEPT
                    !.trees[s.repertoireSide] =
                       s.undoStackBySide[s.repertoireSide][Len(s.undoStackBySide[s.repertoireSide])].tree,
                    !.selectedNodeBySide[s.repertoireSide] =
                       s.undoStackBySide[s.repertoireSide][Len(s.undoStackBySide[s.repertoireSide])].selectedNodeId],
                 TRUE) }

\* an undo that does not look at the training session
undoNavigationInTraining(s) ==
  LET activeSide == s.repertoireSide
      stack == s.undoStackBySide[activeSide]
      snapshot == stack[Len(stack)]
  IN IF Len(stack) = 0 THEN { Outcome(s, FALSE) }
     ELSE { Outcome([s EXCEPT
                       !.undoStackBySide[activeSide] = SubSeq(stack, 1, Len(stack) - 1),
                       !.trees[activeSide] = snapshot.tree,
                       !.selectedNodeBySide[activeSide] = snapshot.selectedNodeId], TRUE) }

\* the early returns set nothing: the state stays as it is
undoNavigation(s) ==
  LET activeSide == s.repertoireSide
      stack == s.undoStackBySide[activeSide]
      snapshot == stack[Len(stack)]
  IN IF isTrainingActive(s) THEN { Outcome(s, FALSE) }
     ELSE IF Len(stack) = 0 THEN { Outcome(s, FALSE) }
     ELSE { Outcome([s EXCEPT
                       !.undoStackBySide[activeSide] = SubSeq(stack, 1, Len(stack) - 1),
                       !.trees[activeSide] = snapshot.tree,
                       !.selectedNodeBySide[activeSide] = snapshot.selectedNodeId], TRUE) }

\* importPgn with importMode = 'current'; an exception of the parser is
\* caught and nothing is set
importPgnCurrent(s, pgn, throws) ==
  LET activeSide == s.repertoireSide
      currentTree == s.trees[activeSide]
      currentSelectedId == s.selectedNodeBySide[activeSide]
      parsed == parsePgnToTree(currentTree, pgn, throws)
      nextTree == parsed.tree
  IN IF parsed.threw THEN {}
     ELSE { Outcome([s EXCEPT
                       !.undoStackBySide[activeSide] =
                          PushUndo(s.undoStackBySide[activeSide],
                                   [tree |-> currentTree, selectedNodeId |-> currentSelectedId]),
                       !.trees[activeSide] = nextTree,
                       !.selectedNodeBySide[activeSide] =
                          IF HasNode(nextTree, currentSelectedId) THEN currentSelectedId
                          ELSE nextTree.rootId], TRUE) }

\* ------------------------------------------------------------------------
\* Repertoire handlers
\* ------------------------------------------------------------------------
UpperCase == <<"A","B","C","D","E","F","G","H","I","J","K","L","M","N","O","P","Q","R","S","T","U","V","W","X","Y","Z">>
LowerCase == <<"a","b","c","d","e","f","g","h","i","j","k","l","m","n","o","p","q","r","s","t","u","v","w","x","y","z">>

ToLowerCase(text) ==
  [i \in 1..Len(text) |->
     IF \E k \in 1..Len(UpperCase) : UpperCase[k] = text[i]
     THEN LowerCase[CHOOSE k \in 1..Len(UpperCase) : UpperCase[k] = text[i]]
     ELSE text[i]]

\* String.prototype.localeCompare on move notation: letters compare without
\* regard to case first, digits sort before letters, a prefix sorts before
\* the longer text, and texts equal up to case put the lower case first
CollationOrder == <<"0","1","2","3","4","5","6","7","8","9","a","b","c","d","e","f","g","h","i","j","k","l","m","n","o","p","q","r","s","t","u","v","w","x","y","z">>

CollationRank(c) ==
  IF \E k \in 1..Len(CollationOrder) : CollationOrder[k] = c
  THEN CHOOSE k \in 1..Len(CollationOrder) : CollationOrder[k] = c
  ELSE 0

PrimaryKey(text) == [i \in 1..Len(ToLowerCase(text)) |-> CollationRank(ToLowerCase(text)[i])]

CaseKey(text) == [i \in 1..Len(text) |-> IF \E k \in 1..Len(UpperCase) : UpperCase[k] = text[i] THEN 1 ELSE 0]

FirstDifference(x, y) == Min({i \in 1..Min({Len(x), Len(y)}) : x[i] # y[i]})

CompareKeys(x, y) ==
  IF \E i \in 1..Min({Len(x), Len(y)}) : x[i] # y[i]
  THEN IF x[FirstDifference(x, y)] < y[FirstDifference(x, y)] THEN -1 ELSE 1
  ELSE IF Len(x) < Len(y) THEN -1
  ELSE IF Len(x) > Len(y) THEN 1
  ELSE 0

localeCompare(a, b) ==
  IF CompareKeys(PrimaryKey(a), PrimaryKey(b)) # 0
  THEN CompareKeys(PrimaryKey(a), PrimaryKey(b))
  ELSE CompareKeys(CaseKey(a), CaseKey(b))

\* Object.values(tree.nodes): the root first, then the nodes as created
RECURSIVE NodeIdsInOrder(_)
NodeIdsInOrder(ids) ==
  IF ids = {} THEN <<>>
  ELSE <<CHOOSE x \in ids : \A y \in ids : x[2] <= y[2]>>
         \o NodeIdsInOrder(ids \ {CHOOSE x \in ids : \A y \in ids : x[2] <= y[2]})

RECURSIVE FlattenSeq(_)
FlattenSeq(seqs) == IF seqs = <<>> THEN <<>> ELSE Head(seqs) \o FlattenSeq(Tail(seqs))

\* the children of one node of one repertoire that carry a move
OfferedChildren(repertoire, id) ==
  SelectSeq(repertoire.tree.nodes[id].children,
            LAMBDA c : /\ HasNode(repertoire.tree, c)
                       /\ repertoire.tree.nodes[c].moveUci # Null
                       /\ repertoire.tree.nodes[c].moveSan # Null)

OffersOfNode(repertoire, id) ==
  [k \in 1..Len(OfferedChildren(repertoire, id)) |->
     [moveUci |-> repertoire.tree.nodes[OfferedChildren(repertoire, id)[k]].moveUci,
      moveSan |-> repertoire.tree.nodes[OfferedChildren(repertoire, id)[k]].moveSan,
      name |-> repertoire.name]]

NodesAtFen(repertoire, currentFen) ==
  NodeIdsInOrder({n \in DOMAIN repertoire.tree.nodes : repertoire.tree.nodes[n].fen = currentFen})

OffersOfRepertoire(repertoire, currentFen) ==
  FlattenSeq([k \in 1..Len(NodesAtFen(repertoire, currentFen)) |->
                OffersOfNode(repertoire, NodesAtFen(repertoire, currentFen)[k])])

OffersOfSide(list, currentFen) ==
  FlattenSeq([i \in 1..Len(list) |-> OffersOfRepertoire(list[i], currentFen)])

\* byUci.get(child.moveUci): add the name to the option there is, or set a
\* new option at the end of the map
byUciKeepsFirstName(byUci, offer) ==
  IF \E j \in 1..Len(byUci) : byUci[j].moveUci = offer.moveUci
  THEN byUci
  ELSE Append(byUci, [moveUci |-> offer.moveUci, moveSan |-> offer.moveSan,
                      repertoireNames |-> {offer.name}])

byUciAdd(byUci, offer) ==
  IF \E j \in 1..Len(byUci) : byUci[j].moveUci = offer.moveUci
  THEN [j \in 1..Len(byUci) |->
          IF byUci[j].moveUci = offer.moveUci
          THEN [byUci[j] EXCEPT !.repertoireNames = @ \cup {offer.name}]
          ELSE byUci[j]]
  ELSE Append(byUci, [moveUci |-> offer.moveUci, moveSan |-> offer.moveSan,
                      repertoireNames |-> {offer.name}])

RECURSIVE byUciOf(_, _)
byUciOf(byUci, offers) ==
  IF offers = <<>> THEN byUci ELSE byUciOf(byUciAdd(byUci, Head(offers)), Tail(offers))

\* the comparator of the sort: more names first, then the notation
compareOptions(a, b) ==
  IF Cardinality(b.repertoireNames) # Cardinality(a.repertoireNames)
  THEN Cardinality(b.repertoireNames) - Cardinality(a.repertoireNames)
  ELSE localeCompare(a.moveSan, b.moveSan)

\* Array.prototype.sort is stable: an option goes before the first option
\* it is smaller than
InsertOption(sorted, option) ==
  IF \E j \in 1..Len(sorted) : compareOptions(option, sorted[j]) < 0
  THEN SubSeq(sorted, 1, Min({j \in 1..Len(sorted) : compareOptions(option, sorted[j]) < 0}) - 1)
         \o <<option>>
         \o SubSeq(sorted, Min({j \in 1..Len(sorted) : compareOptions(option, sorted[j]) < 0}), Len(sorted))
  ELSE Append(sorted, option)

RECURSIVE SortOptions(_, _)
SortOptions(sorted, options) ==
  IF options = <<>> THEN sorted ELSE SortOptions(InsertOption(sorted, Head(options)), Tail(options))

\* the options of browse mode, each with the set of the names it carries
browseMoveOptions(s) ==
  IF ~isBrowseMode(s) THEN <<>>
  ELSE SortOptions(<<>>, byUciOf(<<>>, OffersOfSide(s.repertoiresBySide[s.repertoireSide], selectedNode(s).fen)))

IsDefaultNameExactly(name) == normalizeRepertoireName(name) = TextDefault

\* normalizeRepertoireName(entry.name).toLowerCase() === 'default'
IsDefaultName(name) == ToLowerCase(normalizeRepertoireName(name)) = ToLowerCase(TextDefault)

\* the entries the load dialog lists for the side the board shows
loadableRepertoiresForBoardSide(s) ==
  SelectSeq(s.repertoiresBySide[boardOrientation(s)], LAMBDA entry : ~IsDefaultName(entry.name))

\* `Imported ${side} repertoire ${index + 1}`
TextImported == <<"I", "m", "p", "o", "r", "t", "e", "d", " ">>

TextSpaceRepertoire == <<" ", "r", "e", "p", "e", "r", "t", "o", "i", "r", "e", " ">>

SideText(side) == IF side = "white" THEN <<"w", "h", "i", "t", "e">> ELSE <<"b", "l", "a", "c", "k">>

ImportedName(side, index) == TextImported \o SideText(side) \o TextSpaceRepertoire \o NumToText(index + 1)

\* the forEach of the whole-database import over the games of a text that
\* has no header line: no White, Black or Event header, so every game goes
\* to the active side under the name made from its index; an exception of
\* the parser leaves the loop
RECURSIVE importedBySide(_, _, _, _, _)
importedPush(parsed, rest, side, index, seq) ==
  IF parsed.threw \/ rest.threw THEN [entries |-> <<>>, threw |-> TRUE]
  ELSE [entries |-> << [id |-> createRepertoireId(side, seq),
                        name |-> normalizeRepertoireName(ImportedName(side, index)),
                        tree |-> parsed.tree,
                        selectedNodeId |-> parsed.tree.rootId] >> \o rest.entries,
        threw |-> FALSE]

importedBySide(chunks, index, side, seq, throws) ==
  IF Len(chunks) = 0 THEN [entries |-> <<>>, threw |-> FALSE]
  ELSE importedPush(parsePgnToTree(createEmptyTree(side), chunks[1], throws),
                    importedBySide(Tail(chunks), index + 1, side, seq + 1, throws),
                    side, index, seq)

importPgnDbSet(s, imported) ==
  IF imported.threw \/ Len(imported.entries) = 0 THEN {}
  ELSE { Outcome([s EXCEPT
                    !.repertoireIdSeq = s.repertoireIdSeq + Len(imported.entries),
                    !.repertoiresBySide[s.repertoireSide] = s.repertoiresBySide[s.repertoireSide] \o imported.entries],
                 FALSE) }

\* importPgn with importMode = 'db'
importPgnDb(s, pgn, throws) ==
  IF Len(splitPgnGames(pgn)) = 0 THEN {}
  ELSE importPgnDbSet(s, importedBySide(splitPgnGames(pgn), 0, s.repertoireSide, s.repertoireIdSeq, throws))

dropTrainingNever(s, side) == s.trainingSession

dropTrainingOf(s, side) ==
  IF s.trainingSession # NoTraining /\ s.trainingSession.side = side THEN NoTraining
  ELSE s.trainingSession

createNewRepertoire(s, side, newRepertoireName) ==
  LET next == createEmptyRepertoire(side, normalizeRepertoireName(newRepertoireName), s.repertoireIdSeq)
  IN { Outcome([s EXCEPT
                  !.repertoireIdSeq = s.repertoireIdSeq + 1,
                  !.repertoiresBySide[side] = Append(s.repertoiresBySide[side], next),
                  !.activeRepertoireIdBySide[side] = next.id,
                  !.trees[side] = next.tree,
                  !.selectedNodeBySide[side] = next.selectedNodeId,
                  !.undoStackBySide[side] = <<>>,
                  !.trainingSession = dropTrainingOf(s, side)], TRUE) }

loadRepertoire(s, repertoireId, side) ==
  LET idx == EntryIndex(s.repertoiresBySide[side], repertoireId)
      entry == s.repertoiresBySide[side][idx]
  IN IF idx = 0 THEN {}
     ELSE { Outcome([s EXCEPT
                       !.activeRepertoireIdBySide[side] = entry.id,
                       !.trees[side] = entry.tree,
                       !.selectedNodeBySide[side] =
                          IF HasNode(entry.tree, entry.selectedNodeId) THEN entry.selectedNodeId
                          ELSE entry.tree.rootId,
                       !.undoStackBySide[side] = <<>>,
                       !.trainingSession = dropTrainingOf(s, side)], TRUE) }

commitRenameRepertoire(s, repertoireId, side, renameDraft) ==
  { Outcome([s EXCEPT
               !.repertoiresBySide[side] =
                  [i \in 1..Len(s.repertoiresBySide[side]) |->
                     IF s.repertoiresBySide[side][i].id = repertoireId
                     THEN [s.repertoiresBySide[side][i] EXCEPT !.name = normalizeRepertoireName(renameDraft)]
                     ELSE s.repertoiresBySide[side][i]]], FALSE) }

deleteRepertoireOnlyFromList(s, repertoireId, side, confirmed) ==
  IF EntryIndex(s.repertoiresBySide[side], repertoireId) = 0 THEN {}
  ELSE IF IsDefaultName(s.repertoiresBySide[side][EntryIndex(s.repertoiresBySide[side], repertoireId)].name)
       THEN { Outcome(s, FALSE) }
  ELSE IF ~confirmed \/ Len(s.repertoiresBySide[side]) = 1 THEN { Outcome(s, FALSE) }
  ELSE { Outcome([s EXCEPT !.repertoiresBySide[side] =
                              SelectSeq(s.repertoiresBySide[side], LAMBDA item : item.id # repertoireId)],
                 FALSE) }

\* confirmed is the answer to window.confirm; a refused or declined deletion
\* is a step that sets nothing
deleteRepertoire(s, repertoireId, side, confirmed) ==
  LET idx == EntryIndex(s.repertoiresBySide[side], repertoireId)
      entry == s.repertoiresBySide[side][idx]
      remaining == SelectSeq(s.repertoiresBySide[side], LAMBDA item : item.id # repertoireId)
      fallback == remaining[1]
      removed == [s EXCEPT !.repertoiresBySide[side] = remaining]
  IN IF idx = 0 THEN {}
     ELSE IF IsDefaultName(entry.name) THEN { Outcome(s, FALSE) }
     ELSE IF ~confirmed THEN { Outcome(s, FALSE) }
     ELSE IF Len(remaining) = 0 THEN { Outcome(s, FALSE) }
     ELSE IF s.activeRepertoireIdBySide[side] = repertoireId
     THEN { Outcome([removed EXCEPT
                       !.activeRepertoireIdBySide[side] = Null,
                       !.trees[side] = fallback.tree,
                       !.selectedNodeBySide[side] = fallback.selectedNodeId,
                       !.undoStackBySide[side] = <<>>,
                       !.trainingSession = dropTrainingOf(s, side)], TRUE) }
     ELSE { Outcome(removed, FALSE) }

\* the Rotate board button
rotateBoard(s) ==
  IF isBrowseMode(s)
  THEN { Outcome([s EXCEPT !.repertoireSide = OtherSide(s.repertoireSide),
                           !.isTempBoardFlipped = FALSE], FALSE) }
  ELSE { Outcome([s EXCEPT !.isTempBoardFlipped = ~s.isTempBoardFlipped], FALSE) }

\* ------------------------------------------------------------------------
\* Hydration from the browser database
\* ------------------------------------------------------------------------
NoPayload == [version |-> 0, repertoiresBySide |-> [side \in Sides |-> <<>>],
              activeRepertoireIdBySide |-> [side \in Sides |-> Null]]

TextMain == <<"M", "a", "i", "n">>

\* "1. e4 e5 2. Bc4", "1. e4 e5 2. Nf3" and "1. e4 e5 2. Nf3 Nc6"
PgnBishop == <<"1", ".", " ", "e", "4", " ", "e", "5", " ", "2", ".", " ", "B", "c", "4">>

PgnKnight == <<"1", ".", " ", "e", "4", " ", "e", "5", " ", "2", ".", " ", "N", "f", "3">>

PgnKnightLine == <<"1", ".", " ", "e", "4", " ", "e", "5", " ", "2", ".", " ", "N", "f", "3", " ", "N", "c", "6">>

\* what an earlier session of the program left in the database: nothing, or
\* a version 2 state holding a second white repertoire built from a PGN,
\* its cursor after 1. e4 e5, and three black repertoires, two of them
\* created under the same name
StoredMain ==
  LET tree == parsePgnToTree(createEmptyTree("white"), PgnVariation, FALSE).tree
  IN [ version |-> 2,
       repertoiresBySide |->
         [ side \in Sides |->
             IF side = "white"
             THEN << [id |-> <<"white", -1>>, name |-> TextDefault, tree |-> createEmptyTree("white"),
                      selectedNodeId |-> RootIdOf("white")],
                     [id |-> <<"white", -3>>, name |-> TextMain, tree |-> tree,
                      selectedNodeId |-> <<"n", 2>>] >>
             ELSE << [id |-> <<"black", -2>>, name |-> TextDefault,
                      tree |-> parsePgnToTree(createEmptyTree("black"), PgnBishop, FALSE).tree,
                      selectedNodeId |-> RootIdOf("black")],
                     [id |-> <<"black", -4>>, name |-> TextMain,
                      tree |-> parsePgnToTree(createEmptyTree("black"), PgnKnight, FALSE).tree,
                      selectedNodeId |-> RootIdOf("black")],
                     [id |-> <<"black", -5>>, name |-> TextMain,
                      tree |-> parsePgnToTree(createEmptyTree("black"), PgnKnightLine, FALSE).tree,
                      selectedNodeId |-> RootIdOf("black")] >> ],
       activeRepertoireIdBySide |-> [side \in Sides |-> IF side = "white" THEN <<"white", -3>> ELSE Null] ]

\* a stored state whose white side holds one repertoire, not named Default,
\* whose black side holds none, and whose active id names no entry
StoredSolo ==
  [ version |-> 2,
    repertoiresBySide |->
      [ side \in Sides |->
          IF side = "white"
          THEN << [id |-> <<"white", -6>>, name |-> TextMain, tree |-> createEmptyTree("white"),
                   selectedNodeId |-> RootIdOf("white")] >>
          ELSE <<>> ],
    activeRepertoireIdBySide |-> [side \in Sides |-> IF side = "white" THEN <<"white", -7>> ELSE Null] ]

StoredPayloads == {NoPayload, StoredMain}

CollectionPayloads == {NoPayload, StoredMain, StoredSolo}

\* A stored value is a record; the paths of the fields that are absent
\* (undefined, null) are in its field missing and the paths of the fields
\* that hold a value of another type in its field mistyped, when it has
\* these fields. An entry carries the paths of its own fields.
Missing(value) == IF "missing" \in DOMAIN value THEN value.missing ELSE {}

Mistyped(value) == IF "mistyped" \in DOMAIN value THEN value.mistyped ELSE {}

\* !x is false
IsTruthy(value, path) == path \notin Missing(value)

\* typeof x, Array.isArray(x), Number.isFinite(x) give what the program writes
IsOfType(value, path) == path \notin (Missing(value) \cup Mistyped(value))

\* the tree is at the path in the record holding it; the nodes of the node
\* map are not looked at
isValidMoveTree(holder, path) ==
  /\ IsOfType(holder, path)
  /\ IsOfType(holder, path \o <<"rootId">>)
  /\ IsOfType(holder, path \o <<"nextId">>)
  /\ IsOfType(holder, path \o <<"nodes">>)

\* the filter of normalizeSide
isValidEntry(entry) ==
  /\ IsOfType(entry, <<"entry">>)
  /\ IsOfType(entry, <<"id">>)
  /\ IsOfType(entry, <<"name">>)
  /\ IsOfType(entry, <<"selectedNodeId">>)
  /\ isValidMoveTree(entry, <<"tree">>)

\* Array.isArray(parsedV2.repertoiresBySide[side]) ? ... : []
StoredList(value, side) ==
  IF IsOfType(value, <<"repertoiresBySide">>) /\ IsOfType(value, <<"repertoiresBySide", side>>)
  THEN value.repertoiresBySide[side] ELSE <<>>

\* entry.name || `${side} repertoire ${index + 1}`
StoredName(entry, side, index) ==
  IF entry.name = <<>> THEN SideText(side) \o TextSpaceRepertoire \o NumToText(index + 1) ELSE entry.name

normalizeEntry(entry, side, index) ==
  [entry EXCEPT
     !.name = normalizeRepertoireName(StoredName(entry, side, index)),
     !.selectedNodeId = IF HasNode(entry.tree, entry.selectedNodeId)
                        THEN entry.selectedNodeId ELSE entry.tree.rootId]

normalizeValid(valid, side, seq) ==
  IF Len(valid) > 0
  THEN [i \in 1..Len(valid) |-> normalizeEntry(valid[i], side, i - 1)]
  ELSE <<createEmptyRepertoire(side, TextDefault, seq)>>

normalizeSide(value, side, seq) == normalizeValid(SelectSeq(StoredList(value, side), isValidEntry), side, seq)

\* whiteActive && whiteList.some((entry) => entry.id === whiteActive) ? whiteActive : null
normalizeActive(value, side, list) ==
  IF /\ IsOfType(value, <<"activeRepertoireIdBySide", side>>)
     /\ IsOfType(value, <<"activeRepertoireIdBySide">>)
     /\ value.activeRepertoireIdBySide[side] # Null
     /\ EntryIndex(list, value.activeRepertoireIdBySide[side]) # 0
  THEN value.activeRepertoireIdBySide[side] ELSE Null

normalizeV2(value, seq) ==
  IF ~IsTruthy(value, <<"repertoiresBySide">>) \/ ~IsTruthy(value, <<"activeRepertoireIdBySide">>)
  THEN NoPayload
  ELSE [version |-> 2,
        repertoiresBySide |-> [side \in Sides |-> normalizeSide(value, side, seq)],
        activeRepertoireIdBySide |->
          [side \in Sides |-> normalizeActive(value, side, normalizeSide(value, side, seq))]]

\* a migration that keeps the legacy cursor as it is
legacyRepertoireKeepsCursor(value, side, seq) ==
  [id |-> createRepertoireId(side, seq),
   name |-> TextDefault,
   tree |-> value.trees[side],
   selectedNodeId |-> value.selectedNodeBySide[side]]

\* the synthetic entry of a legacy tree
legacyRepertoire(value, side, seq) ==
  [id |-> createRepertoireId(side, seq),
   name |-> TextDefault,
   tree |-> value.trees[side],
   selectedNodeId |-> IF HasNode(value.trees[side], value.selectedNodeBySide[side])
                      THEN value.selectedNodeBySide[side] ELSE value.trees[side].rootId]

normalizeV1(value, seq) ==
  IF ~IsTruthy(value, <<"trees">>) \/ ~IsTruthy(value, <<"selectedNodeBySide">>) THEN NoPayload
  ELSE IF \/ ~IsOfType(value, <<"trees">>)
          \/ ~isValidMoveTree(value, <<"trees", "white">>)
          \/ ~isValidMoveTree(value, <<"trees", "black">>) THEN NoPayload
  ELSE IF \/ ~IsOfType(value, <<"selectedNodeBySide">>)
          \/ ~IsOfType(value, <<"selectedNodeBySide", "white">>)
          \/ ~IsOfType(value, <<"selectedNodeBySide", "black">>) THEN NoPayload
  ELSE [version |-> 2,
        repertoiresBySide |->
          [side \in Sides |-> <<legacyRepertoire(value, side, IF side = "white" THEN seq ELSE seq + 1)>>],
        activeRepertoireIdBySide |-> [side \in Sides |-> Null]]

\* NoPayload stands for null, as the argument (nothing stored, or a value
\* that is not an object) and as the result
normalizePersistedState(value, seq) ==
  IF value.version = 2 THEN normalizeV2(value, seq)
  ELSE IF value.version = 1 THEN normalizeV1(value, seq)
  ELSE NoPayload

\* a hydration that restores the active ids the payload holds
hydrateAppStateKeepsActive(s, stored, loadFailed) ==
  LET persisted == normalizePersistedState(stored, s.repertoireIdSeq)
      whiteDefault == createEmptyRepertoire("white", TextDefault, s.repertoireIdSeq)
      blackDefault == createEmptyRepertoire("black", TextDefault, s.repertoireIdSeq + 1)
      lists == IF persisted # NoPayload THEN persisted.repertoiresBySide
               ELSE [side \in Sides |-> IF side = "white" THEN <<whiteDefault>> ELSE <<blackDefault>>]
  IN IF loadFailed THEN { Outcome([s EXCEPT !.hasHydratedAppState = TRUE], FALSE) }
     ELSE { Outcome([s EXCEPT
                       !.hasHydratedAppState = TRUE,
                       !.repertoireIdSeq = s.repertoireIdSeq + 2,
                       !.repertoiresBySide = lists,
                       !.activeRepertoireIdBySide =
                          IF persisted # NoPayload THEN persisted.activeRepertoireIdBySide
                          ELSE [side \in Sides |-> Null],
                       !.trees = [side \in Sides |-> lists[side][1].tree],
                       !.selectedNodeBySide = [side \in Sides |-> lists[side][1].selectedNodeId],
                       !.undoStackBySide = [side \in Sides |-> <<>>]], TRUE) }

hydrateAppState(s, stored, loadFailed) ==
  LET persisted == normalizePersistedState(stored, s.repertoireIdSeq)
      whiteDefault == createEmptyRepertoire("white", TextDefault, s.repertoireIdSeq)
      blackDefault == createEmptyRepertoire("black", TextDefault, s.repertoireIdSeq + 1)
      lists == IF persisted # NoPayload THEN persisted.repertoiresBySide
               ELSE [side \in Sides |-> IF side = "white" THEN <<whiteDefault>> ELSE <<blackDefault>>]
  IN IF loadFailed THEN { Outcome([s EXCEPT !.hasHydratedAppState = TRUE], FALSE) }
     ELSE { Outcome([s EXCEPT
                       !.hasHydratedAppState = TRUE,
                       !.repertoireIdSeq = s.repertoireIdSeq + 2,
                       !.repertoiresBySide = lists,
                       !.activeRepertoireIdBySide = [side \in Sides |-> Null],
                       !.trees = [side \in Sides |-> lists[side][1].tree],
                       !.selectedNodeBySide = [side \in Sides |-> lists[side][1].selectedNodeId],
                       !.undoStackBySide = [side \in Sides |-> <<>>]], TRUE) }

\* the explorer answering the request in flight
lichessDone(s, moves) ==
  IF s.lichessStatus # "loading" THEN {}
  ELSE { Outcome([s EXCEPT !.lichessData = [fen |-> selectedNode(s).fen, moves |-> moves],
                           !.lichessStatus = "done"], FALSE) }

lichessError(s) ==
  IF s.lichessStatus # "loading" THEN {}
  ELSE { Outcome([s EXCEPT !.lichessStatus = "error"], FALSE) }

\* ------------------------------------------------------------------------
\* The state machine of the application
\* ------------------------------------------------------------------------
NameInputs == {TextMain}

\* answers of the explorer: move -> number of games
ExplorerAnswers ==
  { [uci \in {<<"g1", "f3">>, <<"f1", "c4">>} |-> IF uci = <<"f1", "c4">> THEN 2 ELSE 1] }

Op(name, arg) == [op |-> name, arg |-> arg]

AppInit ==
  /\ trees = [side \in Sides |-> createEmptyTree(side)]
  /\ selectedNodeBySide = [side \in Sides |-> RootIdOf(side)]
  /\ repertoiresBySide =
       [side \in Sides |-> <<createEmptyRepertoire(side, TextDefault, IF side = "white" THEN 0 ELSE 1)>>]
  /\ activeRepertoireIdBySide = [side \in Sides |-> Null]
  /\ repertoireSide = "white"
  /\ isTempBoardFlipped = FALSE
  /\ undoStackBySide = [side \in Sides |-> <<>>]
  /\ trainingSession = NoTraining
  /\ hasHydratedAppState = FALSE
  /\ lichessStatus = "loading"
  /\ lichessData = NoLichessData
  /\ repertoireIdSeq = 2
  /\ pendingEffects = <<>>
  /\ steps = 0
  /\ lastOp = Op("init", Null)

\* the variables take the fields of a state
SetApp(next) ==
  /\ trees' = next.trees
  /\ selectedNodeBySide' = next.selectedNodeBySide
  /\ repertoiresBySide' = next.repertoiresBySide
  /\ activeRepertoireIdBySide' = next.activeRepertoireIdBySide
  /\ repertoireSide' = next.repertoireSide
  /\ isTempBoardFlipped' = next.isTempBoardFlipped
  /\ undoStackBySide' = next.undoStackBySide
  /\ trainingSession' = next.trainingSession
  /\ hasHydratedAppState' = next.hasHydratedAppState
  /\ lichessStatus' = next.lichessStatus
  /\ lichessData' = next.lichessData
  /\ repertoireIdSeq' = next.repertoireIdSeq

EffectsDue(set, settled) == IF settled = set THEN <<>> ELSE <<settled>>

\* a handler runs to its end: React commits one of the states it can set;
\* the effects of that commit run before any other handler does
CommitApp(name, arg, outcomes, cost) ==
  /\ pendingEffects = <<>>
  /\ steps + cost <= MaxSteps
  /\ \E o \in outcomes :
       /\ SetApp(o.state)
       /\ pendingEffects' = EffectsDue(o.state, Settle(App, o.state, o.cursorSet))
  /\ steps' = steps + cost
  /\ lastOp' = Op(name, arg)

Commit(name, arg, outcomes, cost) ==
  /\ CommitApp(name, arg, outcomes, cost)
  /\ UNCHANGED <<oracleThrows, pendingImport, labVars, loaderVars, heapVars, asyncVars>>

\* the effects of the last commit run, and those they trigger in turn
RunEffectsApp ==
  /\ pendingEffects # <<>>
  /\ SetApp(pendingEffects[1])
  /\ pendingEffects' = <<>>
  /\ lastOp' = Op("effects", Null)
  /\ UNCHANGED steps

RunEffects ==
  /\ RunEffectsApp
  /\ UNCHANGED <<oracleThrows, pendingImport, labVars, loaderVars, heapVars, asyncVars>>

HydrateCollection ==
  /\ ~hasHydratedAppState
  /\ \E stored \in CollectionPayloads, loadFailed \in BOOLEAN :
       Commit("hydrate", Null, hydrateAppState(App, stored, loadFailed), 0)

Hydrate == /\ ~hasHydratedAppState
           /\ \E stored \in StoredPayloads, loadFailed \in BOOLEAN :
                Commit("hydrate", Null, hydrateAppState(App, stored, loadFailed), 0)

\* a piece dropped on the board
MakeMove == \E uci \in Ucis : Commit("makeMove", uci, makeMove(App, uci), 1)

\* a move of the inline move list clicked
ClickInlineMove ==
  /\ ~isTrainingActive(App)
  /\ \E i \in 2..Len(buildPath(trees[repertoireSide], selectedNode(App).id)) :
       Commit("navigateToNode", buildPath(trees[repertoireSide], selectedNode(App).id)[i].id,
              navigateToNode(App, repertoireSide,
                             buildPath(trees[repertoireSide], selectedNode(App).id)[i].id), 1)

\* one of the continuations listed under the move list clicked
ClickOption ==
  /\ ~isTrainingActive(App)
  /\ IF isBrowseMode(App)
     THEN \E uci \in BrowseOptionUcis(App) : Commit("playLichessMove", uci, makeMove(App, uci), 1)
     ELSE \E id \in Range(selectedNode(App).children) :
            /\ HasNode(trees[repertoireSide], id)
            /\ Commit("navigateToNode", id, navigateToNode(App, repertoireSide, id), 1)

GoBackOneMove == /\ canGoBack(App) /\ ~isTrainingActive(App)
                 /\ Commit("goBackOneMove", Null, goBackOneMove(App), 1)

DeleteLastMove == /\ canGoBack(App) /\ ~isTrainingActive(App) /\ ~isBrowseMode(App)
                  /\ Commit("deleteLastMove", Null, deleteLastMove(App), 1)

UndoNavigation == /\ Len(undoStackBySide[repertoireSide]) # 0 /\ ~isTrainingActive(App)
                  /\ Commit("undoNavigation", Null, undoNavigation(App), 1)

ImportPgn == /\ ~isBrowseMode(App)
             /\ \E pgn \in PgnTexts :
                  Commit("importPgn", pgn, importPgnCurrent(App, pgn, oracleThrows), 1)

\* the texts given to the whole-database import
DbTexts == {PgnVariation, PgnIllegal}

ImportDb == \E pgn \in DbTexts : Commit("importPgnDb", pgn, importPgnDb(App, pgn, oracleThrows), 1)

CreateNewRepertoire ==
  \E name \in NameInputs :
    Commit("createNewRepertoire", name, createNewRepertoire(App, boardOrientation(App), name), 1)

LoadRepertoire ==
  \E i \in 1..Len(loadableRepertoiresForBoardSide(App)) :
    Commit("loadRepertoire", loadableRepertoiresForBoardSide(App)[i].id,
           loadRepertoire(App, loadableRepertoiresForBoardSide(App)[i].id, boardOrientation(App)), 1)

\* the delete button of an entry the dialog lists, the question confirmed
DeleteRepertoire ==
  \E i \in 1..Len(loadableRepertoiresForBoardSide(App)) :
    Commit("deleteRepertoire", <<loadableRepertoiresForBoardSide(App)[i].id, TRUE>>,
           deleteRepertoire(App, loadableRepertoiresForBoardSide(App)[i].id, boardOrientation(App), TRUE), 1)

\* the handler taken with any entry of the side, those it refuses among
\* them, and with either answer to the question
DeleteAnyRepertoire ==
  \E i \in 1..Len(repertoiresBySide[boardOrientation(App)]), confirmed \in BOOLEAN :
    Commit("deleteRepertoire", <<repertoiresBySide[boardOrientation(App)][i].id, confirmed>>,
           deleteRepertoire(App, repertoiresBySide[boardOrientation(App)][i].id, boardOrientation(App),
                            confirmed), 1)

\* "DEFAULT", typed in the rename field
TextDefaultUpper == <<"D", "E", "F", "A", "U", "L", "T">>

RenameDrafts == {TextDefaultUpper}

CommitRenameRepertoire ==
  \E i \in 1..Len(loadableRepertoiresForBoardSide(App)), renameDraft \in RenameDrafts :
    Commit("commitRenameRepertoire", loadableRepertoiresForBoardSide(App)[i].id,
           commitRenameRepertoire(App, loadableRepertoiresForBoardSide(App)[i].id, boardOrientation(App),
                                  renameDraft), 1)

RotateBoard == Commit("rotateBoard", Null, rotateBoard(App), 1)

StartTraining == /\ ~isTrainingActive(App) /\ canStartTraining(App)
                 /\ Commit("startTraining", Null, startTraining(App), 1)

StopTraining == /\ isTrainingActive(App)
                /\ Commit("stopTraining", Null, stopTraining(App), 1)

ShowHint == /\ isTrainingActive(App) /\ trainingSession.hintRequested
            /\ Commit("showHint", Null, showHint(App), 0)

RestartTrainingLine == /\ isTrainingLineEnd(App)
                       /\ Commit("restartTrainingLine", Null, restartTrainingLine(App), 1)

LichessDone == \E moves \in ExplorerAnswers : Commit("lichessDone", Null, lichessDone(App, moves), 0)

LichessError == Commit("lichessError", Null, lichessError(App), 0)

Next ==
  \/ RunEffects
  \/ Hydrate
  \/ MakeMove
  \/ ClickInlineMove
  \/ ClickOption
  \/ GoBackOneMove
  \/ DeleteLastMove
  \/ UndoNavigation
  \/ ImportPgn
  \/ CreateNewRepertoire
  \/ LoadRepertoire
  \/ DeleteRepertoire
  \/ RotateBoard
  \/ StartTraining
  \/ StopTraining
  \/ ShowHint
  \/ RestartTrainingLine
  \/ LichessDone
  \/ LichessError

\* Undo called in any state, the button being disabled or not
UndoAttempt == Commit("undoNavigation", Null, undoNavigation(App), 1)

\* the handlers that start, use and end a training session, those that change
\* the trees it runs on, and undo called in any state
NextTraining ==
  \/ RunEffects
  \/ Hydrate
  \/ MakeMove
  \/ UndoAttempt
  \/ LoadRepertoire
  \/ DeleteRepertoire
  \/ RotateBoard
  \/ StartTraining
  \/ StopTraining
  \/ ShowHint
  \/ RestartTrainingLine

\* the collection handlers, from every stored state, with the board moves
\* and the training start that give them trees, undo stacks and sessions
NextCollection ==
  \/ RunEffects
  \/ HydrateCollection
  \/ MakeMove
  \/ ImportDb
  \/ CreateNewRepertoire
  \/ LoadRepertoire
  \/ DeleteAnyRepertoire
  \/ CommitRenameRepertoire
  \/ RotateBoard
  \/ StartTraining

\* ------------------------------------------------------------------------
\* The tree functions on their own: a tree built by line insertions, imports,
\* board moves and branch removals
\* ------------------------------------------------------------------------
LabSteps == 3

\* insertLine of the earlier revision: one step of its for loop creates the
\* child of currentId for an accepted move
insertLineChild(nextTree, currentId, fenAfter, move) ==
  [ nextTree EXCEPT
      !.nextId = nextTree.nextId + 1,
      !.nodes = SetNode(SetNode(nextTree.nodes, createNodeId(nextTree),
                                [ id |-> createNodeId(nextTree), parentId |-> currentId,
                                  fen |-> fenAfter, moveSan |-> move.san,
                                  moveUci |-> uciFromMove(move), children |-> <<>>,
                                  stockfishEval |-> Null ]),
                        currentId,
                        [nextTree.nodes[currentId] EXCEPT
                           !.children = Append(nextTree.nodes[currentId].children,
                                               createNodeId(nextTree))]) ]

RECURSIVE insertLineLoop(_, _, _, _, _)
insertLineStep(nextTree, currentId, chess, sanMoves, throws, move, existingChildId) ==
  IF move = NoMove THEN [tree |-> nextTree, threw |-> throws]
  ELSE IF existingChildId # Null
  THEN insertLineLoop(nextTree, existingChildId, ChessAfter(chess, move), Tail(sanMoves), throws)
  ELSE insertLineLoop(insertLineChild(nextTree, currentId, ChessAfter(chess, move), move),
                      createNodeId(nextTree), ChessAfter(chess, move), Tail(sanMoves), throws)

insertLineLoop(nextTree, currentId, chess, sanMoves, throws) ==
  IF Len(sanMoves) = 0 THEN [tree |-> nextTree, threw |-> FALSE]
  ELSE insertLineStep(nextTree, currentId, chess, sanMoves, throws,
                      ChessMoveSan(chess, sanMoves[1]),
                      FindChildByUci(nextTree, nextTree.nodes[currentId].children,
                                     uciFromMove(ChessMoveSan(chess, sanMoves[1]))))

insertLine(tree, sanMoves, throws) ==
  insertLineLoop(tree, tree.rootId, START_POS_FEN, sanMoves, throws)

SanLines ==
  { << <<"e", "4">>, <<"e", "5">>, <<"N", "f", "3">>, <<"N", "c", "6">> >>,
    << <<"e", "4">>, <<"e", "5">>, <<"B", "c", "4">>, <<"B", "c", "5">> >>,
    << <<"N", "f", "3">>, <<"N", "c", "6">>, <<"e", "4">> >>,
    << <<"e", "4">>, <<"Q", "h", "5">>, <<"e", "5">> >> }

UnknownId == <<"n", 0>>

LabOp(name, arg, before, pure) == [op |-> name, arg |-> arg, before |-> before, pure |-> pure]

LabInit ==
  /\ labTree = createEmptyTree("white")
  /\ labRemoved = {}
  /\ labLast = LabOp("init", Null, createEmptyTree("white"), TRUE)
  /\ labSteps = 0

LabApply(name, arg, result, pure) ==
  /\ labSteps < LabSteps
  /\ labSteps' = labSteps + 1
  /\ labTree' = result
  /\ labRemoved' = labRemoved \cup (DOMAIN labTree.nodes \ DOMAIN result.nodes)
  /\ labLast' = LabOp(name, arg, labTree, labLast.pure /\ pure)
  /\ UNCHANGED <<appVars, oracleThrows, pendingImport, loaderVars, heapVars, asyncVars>>

LabInsertLine ==
  \E sanMoves \in SanLines :
    /\ ~insertLine(labTree, sanMoves, oracleThrows).threw
    /\ LabApply("insertLine", sanMoves, insertLine(labTree, sanMoves, oracleThrows).tree, TRUE)

LabImport ==
  \E pgn \in PgnTexts :
    /\ ~parsePgnToTree(labTree, pgn, oracleThrows).threw
    /\ LabApply("parsePgnToTree", pgn, parsePgnToTree(labTree, pgn, oracleThrows).tree, TRUE)

\* the tree makeMove builds for a move played at a node
LabBoardMove ==
  \E nodeId \in DOMAIN labTree.nodes, uci \in Ucis :
    /\ ChessMoveInput(fenToChess(labTree.nodes[nodeId].fen), uciToMoveInput(uci)) # NoMove
    /\ LabApply("makeMove", <<nodeId, uci>>,
                makeMoveTree(labTree, labTree.nodes[nodeId],
                             ChessAfter(fenToChess(labTree.nodes[nodeId].fen),
                                        ChessMoveInput(fenToChess(labTree.nodes[nodeId].fen),
                                                       uciToMoveInput(uci))),
                             ChessMoveInput(fenToChess(labTree.nodes[nodeId].fen),
                                            uciToMoveInput(uci)),
                             FindChildByUci(labTree, labTree.nodes[nodeId].children, uci)).tree,
                FALSE)

LabRemoveBranch ==
  \E branchRootId \in DOMAIN labTree.nodes \cup {UnknownId} :
    LabApply("removeBranch", branchRootId, removeBranch(labTree, branchRootId), FALSE)

LabNext ==
  \/ LabInsertLine
  \/ LabImport
  \/ LabBoardMove
  \/ LabRemoveBranch

\* ------------------------------------------------------------------------
\* The tree functions on objects: a MoveTree, its node map, a node and a
\* children array are objects with an address, so that a write into an
\* object and the allocation of a copy are different things
\* ------------------------------------------------------------------------
ArrayObject(items) == [kind |-> "array", items |-> items]

NodeObject(id, parentId, fen, moveSan, moveUci, children) ==
  [kind |-> "node", id |-> id, parentId |-> parentId, fen |-> fen, moveSan |-> moveSan,
   moveUci |-> moveUci, children |-> children]

MapObject(refs) == [kind |-> "nodes", refs |-> refs]

TreeObject(rootId, nextId, nodes) == [kind |-> "tree", rootId |-> rootId, nextId |-> nextId, nodes |-> nodes]

\* tree.nodes as id -> address, tree.nodes[id], node.children
HeapRefs(h, tree) == h[h[tree].nodes].refs

HeapNodeAt(h, tree, id) == h[HeapRefs(h, tree)[id]]

HeapItems(h, node) == h[node.children].items

\* the MoveTree value read through the address of a tree object
Deref(h, tree) ==
  [ rootId |-> h[tree].rootId,
    nextId |-> h[tree].nextId,
    nodes  |-> [id \in DOMAIN HeapRefs(h, tree) |->
                  [ id |-> HeapNodeAt(h, tree, id).id, parentId |-> HeapNodeAt(h, tree, id).parentId,
                    fen |-> HeapNodeAt(h, tree, id).fen, moveSan |-> HeapNodeAt(h, tree, id).moveSan,
                    moveUci |-> HeapNodeAt(h, tree, id).moveUci,
                    children |-> HeapItems(h, HeapNodeAt(h, tree, id)),
                    stockfishEval |-> Null ]] ]

\* children.find((childId) => tree.nodes[childId]?.moveUci === uci)
HeapFindChild(h, tree, parentId, uci) ==
  LET items == HeapItems(h, HeapNodeAt(h, tree, parentId))
      hits == {i \in 1..Len(items) :
                 items[i] \in DOMAIN HeapRefs(h, tree) /\ HeapNodeAt(h, tree, items[i]).moveUci = uci}
  IN IF hits = {} THEN Null ELSE items[Min(hits)]

\* an ensureChildNode that pushes the new id onto the children array of the
\* parent: parent.children.push(nodeId)
heapEnsureChildNodePushes(h, tree, parentId, move, chessAfterMove) ==
  IF parentId \notin DOMAIN HeapRefs(h, tree) THEN [heap |-> h, nodeId |-> parentId]
  ELSE IF HeapFindChild(h, tree, parentId, uciFromMove(move)) # Null
  THEN [heap |-> h, nodeId |-> HeapFindChild(h, tree, parentId, uciFromMove(move))]
  ELSE [ heap |->
           [ h \o << ArrayObject(<<>>),
                     NodeObject(<<"n", h[tree].nextId>>, parentId, chessAfterMove, move.san,
                                uciFromMove(move), Len(h) + 1) >>
               EXCEPT ![tree].nextId = @ + 1,
                      ![h[tree].nodes].refs = SetNode(@, <<"n", h[tree].nextId>>, Len(h) + 2),
                      ![HeapNodeAt(h, tree, parentId).children].items = Append(@, <<"n", h[tree].nextId>>) ],
         nodeId |-> <<"n", h[tree].nextId>> ]

\* ensureChildNode: writes nextId and two keys of the node map of the tree it
\* is given; the new node, the new parent and its children array are fresh
heapEnsureChildNode(h, tree, parentId, move, chessAfterMove) ==
  IF parentId \notin DOMAIN HeapRefs(h, tree) THEN [heap |-> h, nodeId |-> parentId]
  ELSE IF HeapFindChild(h, tree, parentId, uciFromMove(move)) # Null
  THEN [heap |-> h, nodeId |-> HeapFindChild(h, tree, parentId, uciFromMove(move))]
  ELSE [ heap |->
           [ h \o << ArrayObject(<<>>),
                     NodeObject(<<"n", h[tree].nextId>>, parentId, chessAfterMove, move.san,
                                uciFromMove(move), Len(h) + 1),
                     ArrayObject(Append(HeapItems(h, HeapNodeAt(h, tree, parentId)), <<"n", h[tree].nextId>>)),
                     [HeapNodeAt(h, tree, parentId) EXCEPT !.children = Len(h) + 3] >>
               EXCEPT ![tree].nextId = @ + 1,
                      ![h[tree].nodes].refs =
                         SetNode(SetNode(@, <<"n", h[tree].nextId>>, Len(h) + 2), parentId, Len(h) + 4) ],
         nodeId |-> <<"n", h[tree].nextId>> ]

\* the loop of parseSequence over tokens that are moves: a rejected move is
\* skipped, an accepted one goes through ensureChildNode on nextTree
RECURSIVE heapParseLoop(_, _, _, _, _)
heapParseStep(h, nextTree, chess, nodeId, move, rest) ==
  heapParseLoop(heapEnsureChildNode(h, nextTree, nodeId, move, ChessAfter(chess, move)).heap,
                nextTree, ChessAfter(chess, move),
                heapEnsureChildNode(h, nextTree, nodeId, move, ChessAfter(chess, move)).nodeId, rest)

heapParseLoop(h, nextTree, chess, nodeId, sanMoves) ==
  IF sanMoves = <<>> THEN h
  ELSE IF ChessMoveSan(chess, Head(sanMoves)) = NoMove
  THEN heapParseLoop(h, nextTree, chess, nodeId, Tail(sanMoves))
  ELSE heapParseStep(h, nextTree, chess, nodeId, ChessMoveSan(chess, Head(sanMoves)), Tail(sanMoves))

\* parsePgnChunkIntoTree: nextTree = { rootId, nextId, nodes: { ...tree.nodes } }
heapParseChunk(h, tree, sanMoves) ==
  IF sanMoves = <<>> THEN [heap |-> h, tree |-> tree]
  ELSE [ heap |-> heapParseLoop(h \o << MapObject(HeapRefs(h, tree)),
                                         TreeObject(h[tree].rootId, h[tree].nextId, Len(h) + 1) >>,
                                Len(h) + 2, START_POS_FEN, h[tree].rootId, sanMoves),
         tree |-> Len(h) + 2 ]

\* the tree makeMove sets for a move played at a node
heapMakeMove(h, tree, currentId, move) ==
  IF HeapFindChild(h, tree, currentId, uciFromMove(move)) # Null THEN [heap |-> h, tree |-> tree]
  ELSE [ heap |->
           h \o << ArrayObject(<<>>),
                   NodeObject(<<"n", h[tree].nextId>>, currentId,
                              ChessAfter(fenToChess(HeapNodeAt(h, tree, currentId).fen), move),
                              move.san, uciFromMove(move), Len(h) + 1),
                   ArrayObject(Append(HeapItems(h, HeapNodeAt(h, tree, currentId)), <<"n", h[tree].nextId>>)),
                   [HeapNodeAt(h, tree, currentId) EXCEPT !.children = Len(h) + 3],
                   MapObject(SetNode(SetNode(HeapRefs(h, tree), <<"n", h[tree].nextId>>, Len(h) + 2),
                                     currentId, Len(h) + 4)),
                   TreeObject(h[tree].rootId, h[tree].nextId + 1, Len(h) + 5) >>,
         tree |-> Len(h) + 6 ]

\* the ids removeBranch leaves in nextNodes
HeapRemaining(h, tree, branchRootId) == DOMAIN removeBranchLoop(Deref(h, tree).nodes, <<branchRootId>>)

\* removeBranch: nextNodes = { ...tree.nodes }, the deletes, a fresh parent
\* with a filtered children array, { ...tree, nodes: nextNodes }
heapRemoveBranch(h, tree, branchRootId) ==
  IF branchRootId \notin DOMAIN HeapRefs(h, tree) THEN [heap |-> h, tree |-> tree]
  ELSE IF HeapNodeAt(h, tree, branchRootId).parentId = Null THEN [heap |-> h, tree |-> tree]
  ELSE IF HeapNodeAt(h, tree, branchRootId).parentId \in HeapRemaining(h, tree, branchRootId)
  THEN [ heap |->
           h \o << ArrayObject(RemoveId(HeapItems(h, HeapNodeAt(h, tree, HeapNodeAt(h, tree, branchRootId).parentId)),
                                        branchRootId)),
                   [HeapNodeAt(h, tree, HeapNodeAt(h, tree, branchRootId).parentId) EXCEPT !.children = Len(h) + 1],
                   MapObject([id \in HeapRemaining(h, tree, branchRootId) |->
                                IF id = HeapNodeAt(h, tree, branchRootId).parentId
                                THEN Len(h) + 2 ELSE HeapRefs(h, tree)[id]]),
                   TreeObject(h[tree].rootId, h[tree].nextId, Len(h) + 3) >>,
         tree |-> Len(h) + 4 ]
  ELSE [ heap |-> h \o << MapObject([id \in HeapRemaining(h, tree, branchRootId) |-> HeapRefs(h, tree)[id]]),
                          TreeObject(h[tree].rootId, h[tree].nextId, Len(h) + 1) >>,
         tree |-> Len(h) + 2 ]

\* createEmptyTree('white') as objects
HeapInit ==
  /\ heap = << ArrayObject(<<>>),
               NodeObject(RootIdOf("white"), Null, START_FEN, Null, Null, 1),
               MapObject([id \in {RootIdOf("white")} |-> 2]),
               TreeObject(RootIdOf("white"), 1, 3) >>
  /\ heapTree = 4
  /\ heapSnapshots = <<>>

\* the working tree is replaced by the result; the object it was stays held,
\* as on the undo stack, with the value read from it before the call
HeapApply(name, result) ==
  /\ Len(heapSnapshots) < LabSteps
  /\ heap' = result.heap
  /\ heapTree' = result.tree
  /\ heapSnapshots' = Append(heapSnapshots, [op |-> name, tree |-> heapTree, value |-> Deref(heap, heapTree)])
  /\ UNCHANGED <<appVars, oracleThrows, pendingImport, labVars, loaderVars, asyncVars>>

HeapBoardMove ==
  \E nodeId \in DOMAIN HeapRefs(heap, heapTree), uci \in Ucis :
    /\ ChessMoveInput(fenToChess(HeapNodeAt(heap, heapTree, nodeId).fen), uciToMoveInput(uci)) # NoMove
    /\ HeapApply("makeMove",
                 heapMakeMove(heap, heapTree, nodeId,
                              ChessMoveInput(fenToChess(HeapNodeAt(heap, heapTree, nodeId).fen),
                                             uciToMoveInput(uci))))

\* a rejected move among the tokens, which makes a raising chess.move end the import
RECURSIVE HasRejectedMove(_, _)
HasRejectedMove(chess, sanMoves) ==
  IF sanMoves = <<>> THEN FALSE
  ELSE IF ChessMoveSan(chess, Head(sanMoves)) = NoMove THEN TRUE
  ELSE HasRejectedMove(ChessAfter(chess, ChessMoveSan(chess, Head(sanMoves))), Tail(sanMoves))

HeapImport ==
  \E sanMoves \in SanLines :
    /\ ~(oracleThrows /\ HasRejectedMove(START_POS_FEN, sanMoves))
    /\ HeapApply("parsePgnChunkIntoTree", heapParseChunk(heap, heapTree, sanMoves))

HeapRemoveBranch ==
  \E branchRootId \in DOMAIN HeapRefs(heap, heapTree) \cup {UnknownId} :
    HeapApply("removeBranch", heapRemoveBranch(heap, heapTree, branchRootId))

HeapNext ==
  \/ HeapBoardMove
  \/ HeapImport
  \/ HeapRemoveBranch

\* ------------------------------------------------------------------------
\* The loader applied to stored values of any shape
\* ------------------------------------------------------------------------
NotLoaded == [version |-> -1]

LoaderIdle == storedValue = NoPayload /\ loaded = NotLoaded

\* no save under way, the store empty
SaveIdle == saveTimers = <<>> /\ idbQueue = <<>> /\ idbValue = NoPayload /\ saveStatus = <<>>

\* the statistics request the effect sets up at mount, for the start position
StatsRun(id, s) ==
  [ id |-> id, fen |-> selectedNode(s).fen, side |-> s.repertoireSide,
    phase |-> "timer", aborted |-> FALSE, latestData |-> FALSE ]

StatsMounted ==
  /\ lichessRuns = << [ id |-> 1, fen |-> createEmptyTree("white").nodes[RootIdOf("white")].fen,
                        side |-> "white", phase |-> "timer", aborted |-> FALSE, latestData |-> FALSE ] >>
  /\ lichessRunSeq = 1
  /\ lichessDataRun = 0

NoSearch == [search |-> 0, fen |-> NullFen]

Command(cmd, search, fen) == [cmd |-> cmd, search |-> search, fen |-> fen]

NoTreeEval == [phase |-> "off", left |-> 0, cancel |-> FALSE]

\* the worker effect at mount: a new worker, the refs reset, 'uci' posted
EngineMounted ==
  /\ engineRunning = FALSE /\ engineReady = FALSE /\ isSearching = FALSE
  /\ pendingAnalysis = NullFen
  /\ engineLines = <<>>
  /\ treeEval = NoTreeEval
  /\ workerInbox = <<Command("uci", 0, NullFen)>>
  /\ workerSearch = NoSearch
  /\ workerOutbox = <<>>
  /\ goSeq = 0

AsyncIdle == SaveIdle /\ StatsMounted /\ EngineMounted /\ pendingImport = <<>>

\* a tree with moves and a cursor in it
LoaderTree == parsePgnToTree(createEmptyTree("white"), PgnKnight, FALSE).tree

\* its last move
LoaderCursor == CHOOSE id \in DOMAIN LoaderTree.nodes : LoaderTree.nodes[id].children = <<>>

\* an id no tree has
StaleNodeId == <<"n", 99>>

\* { rootId, nextId, nodes: {} }
RootlessTree(side) == [rootId |-> RootIdOf(side), nextId |-> 1, nodes |-> <<>>]

EntryPaths ==
  { <<"entry">>, <<"id">>, <<"name">>, <<"selectedNodeId">>, <<"tree">>, <<"tree", "rootId">>,
    <<"tree", "nextId">>, <<"tree", "nodes">>, <<"tree", "nodes", "*">> }

GoodEntry(side, n) ==
  [id |-> <<side, -n>>, name |-> TextMain, tree |-> IF side = "white" THEN LoaderTree ELSE createEmptyTree(side),
   selectedNodeId |-> IF side = "white" THEN LoaderCursor ELSE RootIdOf(side), missing |-> {}, mistyped |-> {}]

\* entries with one field absent or of another type, with a cursor that is
\* no node, with a node map without the root, with an empty name
StoredEntries(side, n) ==
  {GoodEntry(side, n)}
    \cup {[GoodEntry(side, n) EXCEPT !.missing = {path}] : path \in EntryPaths}
    \cup {[GoodEntry(side, n) EXCEPT !.mistyped = {path}] : path \in EntryPaths}
    \cup {[GoodEntry(side, n) EXCEPT !.selectedNodeId = StaleNodeId],
          [GoodEntry(side, n) EXCEPT !.tree = RootlessTree(side)],
          [GoodEntry(side, n) EXCEPT !.name = <<>>]}

PayloadV2(white, black, active) ==
  [version |-> 2,
   repertoiresBySide |-> [side \in Sides |-> IF side = "white" THEN white ELSE black],
   activeRepertoireIdBySide |-> [side \in Sides |-> active],
   missing |-> {}, mistyped |-> {}]

V2Paths ==
  { <<"repertoiresBySide">>, <<"activeRepertoireIdBySide">>, <<"repertoiresBySide", "white">>,
    <<"activeRepertoireIdBySide", "white">> }

StoredV2 ==
  {PayloadV2(<<e>>, <<GoodEntry("black", 31)>>, Null) : e \in StoredEntries("white", 30)}
    \cup {PayloadV2(<<e, GoodEntry("white", 32)>>, <<GoodEntry("black", 31)>>, <<"white", -32>>) :
            e \in StoredEntries("white", 30)}
    \cup {[PayloadV2(<<GoodEntry("white", 30)>>, <<GoodEntry("black", 31)>>, <<"white", -30>>)
             EXCEPT !.missing = {path}] : path \in V2Paths}
    \cup {[PayloadV2(<<GoodEntry("white", 30)>>, <<GoodEntry("black", 31)>>, <<"white", -30>>)
             EXCEPT !.mistyped = {path}] : path \in V2Paths}

PayloadV1(cursor) ==
  [version |-> 1,
   trees |-> [side \in Sides |-> IF side = "white" THEN LoaderTree ELSE createEmptyTree(side)],
   selectedNodeBySide |-> [side \in Sides |-> IF side = "white" THEN cursor ELSE RootIdOf(side)],
   missing |-> {}, mistyped |-> {}]

V1Paths ==
  { <<"trees">>, <<"selectedNodeBySide">>, <<"trees", "white">>, <<"trees", "white", "rootId">>,
    <<"trees", "white", "nextId">>, <<"trees", "white", "nodes">>, <<"trees", "white", "nodes", "*">>,
    <<"trees", "black">>, <<"selectedNodeBySide", "white">>, <<"selectedNodeBySide", "black">> }

StoredV1 ==
  {PayloadV1(LoaderCursor), PayloadV1(RootIdOf("white")), PayloadV1(StaleNodeId),
   [PayloadV1(RootIdOf("white")) EXCEPT !.trees = [side \in Sides |-> RootlessTree(side)]]}
    \cup {[PayloadV1(LoaderCursor) EXCEPT !.missing = {path}] : path \in V1Paths}
    \cup {[PayloadV1(LoaderCursor) EXCEPT !.mistyped = {path}] : path \in V1Paths}

\* nothing stored, a value of another version, and the values above
StoredValues == {NoPayload, [version |-> 3]} \cup StoredV2 \cup StoredV1

LoaderInit ==
  /\ AppInit /\ LabInit /\ HeapInit /\ AsyncIdle /\ oracleThrows = FALSE
  /\ storedValue \in StoredValues /\ loaded = NotLoaded

\* the hydration up to the states it sets: persisted is what
\* normalizePersistedState returns, state what the setters are given
LoadStored ==
  /\ loaded = NotLoaded
  /\ \E loadFailed \in BOOLEAN : \E o \in hydrateAppState(App, storedValue, loadFailed) :
       loaded' = [version |-> 2,
                  failed |-> loadFailed,
                  persisted |-> normalizePersistedState(storedValue, repertoireIdSeq),
                  state |-> o.state]
  /\ UNCHANGED <<appVars, oracleThrows, pendingImport, labVars, storedValue, heapVars, asyncVars>>

LoaderNext == LoadStored

\* ------------------------------------------------------------------------
\* The save of the collection: the persist effect, its timeout and idbSet
\* ------------------------------------------------------------------------
TextSaveFailed == <<"L", "o", "c", "a", "l", " ", "s", "a", "v", "e", " ", "f", "a", "i", "l", "e", "d">>

\* the store holds what an earlier session left in it
SaveInit == saveTimers = <<>> /\ idbQueue = <<>> /\ idbValue \in StoredPayloads /\ saveStatus = <<>>

\* the dependencies of the persist effect
PersistDeps(s) == <<s.hasHydratedAppState, s.repertoiresBySide, s.activeRepertoireIdBySide>>

\* const payload: PersistedAppState = { version: 2, ... }
PersistPayload(s) ==
  [ version |-> 2,
    repertoiresBySide |-> s.repertoiresBySide,
    activeRepertoireIdBySide |-> s.activeRepertoireIdBySide ]

\* an effect without cleanup: every run sets one more timeout
persistEffectKeepsTimers(timers, prev, s) ==
  IF PersistDeps(s) = PersistDeps(prev) THEN timers
  ELSE IF ~s.hasHydratedAppState THEN timers
  ELSE Append(timers, PersistPayload(s))

\* the persist effect after a render: when a dependency changed, the cleanup
\* of the run before clears its timeout and the run sets a new one
persistEffect(timers, prev, s) ==
  IF PersistDeps(s) = PersistDeps(prev) THEN timers
  ELSE IF ~s.hasHydratedAppState THEN <<>>
  ELSE <<PersistPayload(s)>>

\* a handler and the render that follows it, the persist effect included
CommitSaving(name, arg, outcomes, cost) ==
  /\ CommitApp(name, arg, outcomes, cost)
  /\ saveTimers' = persistEffect(saveTimers, App, App')
  /\ UNCHANGED <<oracleThrows, pendingImport, labVars, loaderVars, heapVars, idbQueue, idbValue, saveStatus, statsVars,
                 engineVars>>

SaveRunEffects ==
  /\ RunEffectsApp
  /\ saveTimers' = persistEffect(saveTimers, App, App')
  /\ UNCHANGED <<oracleThrows, pendingImport, labVars, loaderVars, heapVars, idbQueue, idbValue, saveStatus, statsVars,
                 engineVars>>

\* hydration reads the value the store holds
SaveHydrate ==
  /\ ~hasHydratedAppState
  /\ \E loadFailed \in BOOLEAN :
       CommitSaving("hydrate", Null, hydrateAppState(App, idbValue, loadFailed), 0)

SaveMakeMove == \E uci \in Ucis : CommitSaving("makeMove", uci, makeMove(App, uci), 1)

SaveLoadRepertoire ==
  \E i \in 1..Len(loadableRepertoiresForBoardSide(App)) :
    CommitSaving("loadRepertoire", loadableRepertoiresForBoardSide(App)[i].id,
                 loadRepertoire(App, loadableRepertoiresForBoardSide(App)[i].id, boardOrientation(App)), 1)

SaveCreateNewRepertoire ==
  \E name \in NameInputs :
    CommitSaving("createNewRepertoire", name, createNewRepertoire(App, boardOrientation(App), name), 1)

\* window.setTimeout(() => { void idbSet(APP_STATE_KEY, payload)... }, 120):
\* a timeout that was not cleared runs and calls idbSet
SaveTimerFires ==
  /\ \E i \in 1..Len(saveTimers) :
       /\ idbQueue' = Append(idbQueue, saveTimers[i])
       /\ saveTimers' = [j \in 1..(Len(saveTimers) - 1) |-> saveTimers[IF j < i THEN j ELSE j + 1]]
  /\ UNCHANGED <<appVars, oracleThrows, pendingImport, labVars, loaderVars, heapVars, idbValue, saveStatus, statsVars,
                 engineVars>>

\* the oldest idbSet settles: the put succeeds, or the promise is rejected
\* and the catch sets the status text
IdbSettles ==
  /\ idbQueue # <<>>
  /\ \E ok \in BOOLEAN :
       /\ idbValue' = IF ok THEN idbQueue[1] ELSE idbValue
       /\ saveStatus' = IF ok THEN saveStatus ELSE TextSaveFailed
  /\ idbQueue' = Tail(idbQueue)
  /\ UNCHANGED <<appVars, oracleThrows, pendingImport, labVars, loaderVars, heapVars, saveTimers, statsVars, engineVars>>

SaveNext ==
  \/ SaveRunEffects
  \/ SaveHydrate
  \/ SaveMakeMove
  \/ SaveLoadRepertoire
  \/ SaveCreateNewRepertoire
  \/ SaveTimerFires
  \/ IdbSettles

\* ------------------------------------------------------------------------
\* The statistics requests: the effect that sets one up and aborts the one
\* before, the run of a request and what it sets
\* ------------------------------------------------------------------------
\* the dependencies of the statistics effect that the model has
StatsDeps(s) == <<selectedNode(s).fen, s.repertoireSide>>

\* a cleanup that clears the timeout and leaves the fetch alone
statsCleanupClearsTimerOnly(runs) == SelectSeq(runs, LAMBDA run : run.phase # "timer")

\* return () => { controller.abort(); window.clearTimeout(timeout); }: a run
\* that has not started never does, one that has is aborted
statsCleanup(runs) ==
  LET started == SelectSeq(runs, LAMBDA run : run.phase # "timer")
  IN [i \in 1..Len(started) |-> [started[i] EXCEPT !.aborted = TRUE]]

\* the statistics effect after a render: when a dependency changed, the
\* cleanup of the run before, then a new controller and a new timeout
statsEffect(runs, seq, prev, s) ==
  IF StatsDeps(s) = StatsDeps(prev) THEN runs
  ELSE Append(statsCleanup(runs), StatsRun(seq + 1, s))

\* the await of an aborted run rejects in a microtask of the task that
\* aborted it: its catch runs before any handler, timeout or response does
NoRunAborted == \A i \in 1..Len(lichessRuns) : ~lichessRuns[i].aborted

\* a handler and the render that follows it, the statistics effect included
CommitStats(name, arg, outcomes, cost) ==
  /\ NoRunAborted
  /\ CommitApp(name, arg, outcomes, cost)
  /\ lichessRuns' = statsEffect(lichessRuns, lichessRunSeq, App, App')
  /\ lichessRunSeq' = IF StatsDeps(App') = StatsDeps(App) THEN lichessRunSeq ELSE lichessRunSeq + 1
  /\ UNCHANGED <<oracleThrows, pendingImport, labVars, loaderVars, heapVars, saveVars, engineVars, lichessDataRun>>

StatsRunEffects ==
  /\ RunEffectsApp
  /\ UNCHANGED <<oracleThrows, pendingImport, labVars, loaderVars, heapVars, asyncVars>>

StatsHydrate ==
  /\ ~hasHydratedAppState
  /\ \E stored \in StoredPayloads : CommitStats("hydrate", Null, hydrateAppState(App, stored, FALSE), 0)

StatsMakeMove == \E uci \in Ucis : CommitStats("makeMove", uci, makeMove(App, uci), 1)

StatsLoadRepertoire ==
  \E i \in 1..Len(loadableRepertoiresForBoardSide(App)) :
    CommitStats("loadRepertoire", loadableRepertoiresForBoardSide(App)[i].id,
                loadRepertoire(App, loadableRepertoiresForBoardSide(App)[i].id, boardOrientation(App)), 1)

StatsRotateBoard == CommitStats("rotateBoard", Null, rotateBoard(App), 1)

RemoveRun(runs, i) == [j \in 1..(Len(runs) - 1) |-> runs[IF j < i THEN j ELSE j + 1]]

\* a setter called by the run at index i, which then goes on as `after`, or
\* is over when `after` is the empty tuple
StatsSets(name, i, next, after) ==
  /\ CommitApp(name, lichessRuns[i].id, {Outcome(next, FALSE)}, 0)
  /\ lichessRuns' = IF after = <<>> THEN RemoveRun(lichessRuns, i)
                    ELSE [lichessRuns EXCEPT ![i] = after[1]]
  /\ UNCHANGED <<oracleThrows, pendingImport, labVars, loaderVars, heapVars, saveVars, engineVars, lichessRunSeq>>

\* window.setTimeout(run, 280): the run starts and awaits fetch
StatsTimerFires ==
  /\ NoRunAborted
  /\ \E i \in 1..Len(lichessRuns) :
       /\ lichessRuns[i].phase = "timer"
       /\ lichessRuns' = [lichessRuns EXCEPT ![i].phase = "fetching"]
  /\ UNCHANGED <<appVars, oracleThrows, pendingImport, labVars, loaderVars, heapVars, saveVars, engineVars, lichessRunSeq,
                 lichessDataRun>>

\* fetch resolves with res.ok: the run reads the body
StatsResponds ==
  /\ NoRunAborted
  /\ \E i \in 1..Len(lichessRuns) :
       /\ lichessRuns[i].phase = "fetching" /\ ~lichessRuns[i].aborted
       /\ lichessRuns' = [lichessRuns EXCEPT ![i].phase = "reading"]
  /\ UNCHANGED <<appVars, oracleThrows, pendingImport, labVars, loaderVars, heapVars, saveVars, engineVars, lichessRunSeq,
                 lichessDataRun>>

\* reader.read() resolves with a chunk that completes an object:
\* setLichessData(latestData)
StatsChunk ==
  \E i \in 1..Len(lichessRuns), moves \in ExplorerAnswers :
    /\ lichessRuns[i].phase = "reading" /\ ~lichessRuns[i].aborted
    /\ StatsSets("setLichessData", i,
                 [App EXCEPT !.lichessData = [fen |-> lichessRuns[i].fen, moves |-> moves]],
                 <<[lichessRuns[i] EXCEPT !.latestData = TRUE]>>)
    /\ lichessDataRun' = lichessRuns[i].id

\* reader.read() resolves with done: 'done' when an object was read, else
\* the throw of 'Invalid Lichess payload' and 'error'
StatsEnds ==
  \E i \in 1..Len(lichessRuns) :
    /\ lichessRuns[i].phase = "reading" /\ ~lichessRuns[i].aborted
    /\ StatsSets("setLichessStatus", i,
                 [App EXCEPT !.lichessStatus = IF lichessRuns[i].latestData THEN "done" ELSE "error"],
                 <<>>)
    /\ UNCHANGED lichessDataRun

\* the request fails, answers with !res.ok, or its 120 s timeout aborts it:
\* the catch sets 'error'
StatsFails ==
  \E i \in 1..Len(lichessRuns) :
    /\ lichessRuns[i].phase \in {"fetching", "reading"} /\ ~lichessRuns[i].aborted
    /\ StatsSets("setLichessStatus", i, [App EXCEPT !.lichessStatus = "error"], <<>>)
    /\ UNCHANGED lichessDataRun

\* the idle timeout aborts the run: abortedByIdle, and the catch sets 'done'
\* when an object was read
StatsIdleTimeout ==
  \E i \in 1..Len(lichessRuns) :
    /\ lichessRuns[i].phase \in {"fetching", "reading"} /\ ~lichessRuns[i].aborted
    /\ StatsSets("setLichessStatus", i,
                 [App EXCEPT !.lichessStatus = IF lichessRuns[i].latestData THEN "done" ELSE "error"],
                 <<>>)
    /\ UNCHANGED lichessDataRun

\* the await of a run the cleanup aborted rejects: the catch sets 'error'
StatsAbortSeen ==
  \E i \in 1..Len(lichessRuns) :
    /\ lichessRuns[i].aborted
    /\ StatsSets("setLichessStatus", i, [App EXCEPT !.lichessStatus = "error"], <<>>)
    /\ UNCHANGED lichessDataRun

StatsNext ==
  \/ StatsRunEffects
  \/ StatsHydrate
  \/ StatsMakeMove
  \/ StatsLoadRepertoire
  \/ StatsRotateBoard
  \/ StatsTimerFires
  \/ StatsResponds
  \/ StatsChunk
  \/ StatsEnds
  \/ StatsFails
  \/ StatsIdleTimeout
  \/ StatsAbortSeen

\* ------------------------------------------------------------------------
\* The engine: the worker, the analysis effect, the tree evaluation
\* ------------------------------------------------------------------------
\* the engine state of the app as one value, with the commands it posts
Engine ==
  [ engineRunning |-> engineRunning,
    engineReady |-> engineReady,
    isSearching |-> isSearching,
    pendingAnalysis |-> pendingAnalysis,
    engineLines |-> engineLines,
    treeEval |-> treeEval,
    workerInbox |-> workerInbox,
    goSeq |-> goSeq ]

SetEngine(next) ==
  /\ engineRunning' = next.engineRunning
  /\ engineReady' = next.engineReady
  /\ isSearching' = next.isSearching
  /\ pendingAnalysis' = next.pendingAnalysis
  /\ engineLines' = next.engineLines
  /\ treeEval' = next.treeEval
  /\ workerInbox' = next.workerInbox
  /\ goSeq' = next.goSeq

Message(msg, search, fen, multipv) == [msg |-> msg, search |-> search, fen |-> fen, multipv |-> multipv]

\* the values of ` multipv ` in the info lines
MultiPvs == {1, 2}

\* the position of a leaf the tree evaluation analyses
LeafFen == {<<"leaf">>}

\* the numbers of leaves at ply 8 or deeper the tree evaluation is run on
TreeEvalLeaves == {1, 2}

postMessage(e, cmd) == [e EXCEPT !.workerInbox = Append(@, cmd)]

\* setoption, position fen and go, posted together
postGo(e, fen) ==
  [postMessage(e, Command("go", e.goSeq + 1, fen)) EXCEPT !.goSeq = e.goSeq + 1]

tryStartPending(e) ==
  IF ~e.engineReady \/ ~e.engineRunning THEN e
  ELSE IF e.isSearching THEN postMessage(e, Command("stop", 0, NullFen))
  ELSE IF e.pendingAnalysis = NullFen THEN e
  ELSE [postGo(e, e.pendingAnalysis) EXCEPT !.pendingAnalysis = NullFen,
                                            !.engineLines = <<>>,
                                            !.isSearching = TRUE]

\* the analysis effect, run when the fen shown, the switch or the ready
\* tick changed
analysisEffect(e, fen) ==
  IF ~e.engineReady THEN e
  ELSE IF ~e.engineRunning
  THEN postMessage([e EXCEPT !.pendingAnalysis = NullFen, !.isSearching = FALSE],
                   Command("stop", 0, NullFen))
  ELSE tryStartPending([e EXCEPT !.pendingAnalysis = fen])

\* the effect that empties the lines when the fen changed and the engine is off
clearLinesEffect(e) == IF ~e.engineRunning THEN [e EXCEPT !.engineLines = <<>>] ELSE e

\* the effects of a render in which the fen shown changed
fenChangedEffects(e, fen) == clearLinesEffect(analysisEffect(e, fen))

\* the click on Run / Stop Stockfish and the render that follows
toggleEngine(e, fen) ==
  LET clicked == IF e.engineRunning THEN postMessage(e, Command("stop", 0, NullFen)) ELSE e
  IN analysisEffect([clicked EXCEPT !.engineRunning = ~e.engineRunning], fen)

treeEvalDone(e) == [e EXCEPT !.treeEval = NoTreeEval]

\* the head of the for loop of runTreeStockfishEval: the next leaf is given
\* to the worker, or the loop is over
treeEvalNext(e) ==
  IF e.treeEval.cancel \/ e.treeEval.left = 0 THEN treeEvalDone(e)
  ELSE [postGo(e, LeafFen) EXCEPT !.treeEval.phase = "awaiting"]

\* the loop goes on after the awaiter was resolved
treeEvalResolved(e) ==
  IF e.treeEval.cancel THEN treeEvalDone(e)
  ELSE treeEvalNext([e EXCEPT !.treeEval.left = @ - 1])

\* runTreeStockfishEval up to its first await and past it when the engine
\* is ready; the render it causes runs the analysis effect in between
runTreeStockfishEval(e, fen, leaves) ==
  LET called == postMessage([e EXCEPT !.pendingAnalysis = NullFen,
                                      !.treeEval = [phase |-> "waiting", left |-> leaves, cancel |-> FALSE]],
                            Command("stop", 0, NullFen))
      rendered == IF e.engineRunning THEN analysisEffect([called EXCEPT !.engineRunning = FALSE], fen)
                  ELSE called
  IN IF rendered.engineReady THEN treeEvalNext(rendered) ELSE rendered

stopTreeStockfishEval(e) ==
  postMessage([e EXCEPT !.treeEval.cancel = TRUE, !.pendingAnalysis = NullFen], Command("stop", 0, NullFen))

SetLine(lines, multipv, search) ==
  [mp \in DOMAIN lines \cup {multipv} |-> IF mp = multipv THEN search ELSE lines[mp]]

\* worker.onmessage
onmessage(e, m, fen) ==
  IF m.msg = "uciok" THEN postMessage(e, Command("isready", 0, NullFen))
  ELSE IF m.msg = "readyok"
  THEN analysisEffect(tryStartPending([e EXCEPT !.engineReady = TRUE]), fen)
  ELSE IF m.msg = "info"
  THEN [e EXCEPT !.engineLines = SetLine(e.engineLines, m.multipv, [search |-> m.search, fen |-> m.fen])]
  ELSE IF e.treeEval.phase = "awaiting"
  THEN treeEvalResolved(tryStartPending([e EXCEPT !.isSearching = FALSE]))
  ELSE tryStartPending([e EXCEPT !.isSearching = FALSE])

\* a handler and the render that follows it, the engine effects included
CommitEngine(name, arg, outcomes, cost) ==
  /\ CommitApp(name, arg, outcomes, cost)
  /\ SetEngine(IF selectedNode(App').fen # selectedNode(App).fen
               THEN fenChangedEffects(Engine, selectedNode(App').fen)
               ELSE Engine)
  /\ UNCHANGED <<oracleThrows, pendingImport, labVars, loaderVars, heapVars, saveVars, statsVars, workerSearch, workerOutbox>>

\* a click that sets engine state only
EngineClick(name, arg, next) ==
  /\ CommitApp(name, arg, {Outcome(App, FALSE)}, 1)
  /\ SetEngine(next)
  /\ UNCHANGED <<oracleThrows, pendingImport, labVars, loaderVars, heapVars, saveVars, statsVars, workerSearch, workerOutbox>>

EngineRunEffects ==
  /\ RunEffectsApp
  /\ UNCHANGED <<oracleThrows, pendingImport, labVars, loaderVars, heapVars, asyncVars>>

EngineHydrate ==
  /\ ~hasHydratedAppState
  /\ CommitEngine("hydrate", Null, hydrateAppState(App, StoredMain, FALSE), 0)

EngineLoadRepertoire ==
  \E i \in 1..Len(loadableRepertoiresForBoardSide(App)) :
    CommitEngine("loadRepertoire", loadableRepertoiresForBoardSide(App)[i].id,
                 loadRepertoire(App, loadableRepertoiresForBoardSide(App)[i].id, boardOrientation(App)), 1)

EngineMakeMove == \E uci \in Ucis : CommitEngine("makeMove", uci, makeMove(App, uci), 1)

ToggleEngine == EngineClick("toggleEngine", Null, toggleEngine(Engine, selectedNode(App).fen))

RunTreeStockfishEval ==
  /\ ~isBrowseMode(App) /\ treeEval.phase = "off"
  /\ \E leaves \in TreeEvalLeaves :
       EngineClick("runTreeStockfishEval", leaves,
                   runTreeStockfishEval(Engine, selectedNode(App).fen, leaves))

StopTreeStockfishEval ==
  /\ treeEval.phase # "off"
  /\ EngineClick("stopTreeStockfishEval", Null, stopTreeStockfishEval(Engine))

\* waitForReady: a poll finds the engine ready, or the last one gives up
TreeEvalPoll ==
  /\ treeEval.phase = "waiting"
  /\ SetEngine(IF engineReady THEN treeEvalNext(Engine) ELSE treeEvalDone(Engine))
  /\ UNCHANGED <<appVars, oracleThrows, pendingImport, labVars, loaderVars, heapVars, saveVars, statsVars, workerSearch,
                 workerOutbox>>

\* the worker takes the oldest command; a go waits for the search that runs
WorkerTakes ==
  /\ workerInbox # <<>>
  /\ workerInbox[1].cmd = "go" => workerSearch = NoSearch
  /\ workerInbox' = Tail(workerInbox)
  /\ workerSearch' = IF workerInbox[1].cmd = "go"
                     THEN [search |-> workerInbox[1].search, fen |-> workerInbox[1].fen]
                     ELSE IF workerInbox[1].cmd = "stop" THEN NoSearch
                     ELSE workerSearch
  /\ workerOutbox' = IF workerInbox[1].cmd = "uci" THEN Append(workerOutbox, Message("uciok", 0, NullFen, 0))
                     ELSE IF workerInbox[1].cmd = "isready"
                     THEN Append(workerOutbox, Message("readyok", 0, NullFen, 0))
                     ELSE IF workerInbox[1].cmd = "stop" /\ workerSearch # NoSearch
                     THEN Append(workerOutbox, Message("bestmove", workerSearch.search, workerSearch.fen, 0))
                     ELSE workerOutbox
  /\ UNCHANGED <<appVars, oracleThrows, pendingImport, labVars, loaderVars, heapVars, saveVars, statsVars, engineRunning,
                 engineReady, isSearching, pendingAnalysis, engineLines, treeEval, goSeq>>

\* the search reports a line
WorkerInfo ==
  /\ workerSearch # NoSearch
  /\ \E multipv \in MultiPvs :
       /\ \A i \in 1..Len(workerOutbox) :
            workerOutbox[i] # Message("info", workerSearch.search, workerSearch.fen, multipv)
       /\ workerOutbox' = Append(workerOutbox, Message("info", workerSearch.search, workerSearch.fen, multipv))
  /\ UNCHANGED <<appVars, oracleThrows, pendingImport, labVars, loaderVars, heapVars, saveVars, statsVars, engineRunning,
                 engineReady, isSearching, pendingAnalysis, engineLines, treeEval, goSeq, workerInbox,
                 workerSearch>>

\* the search reaches its depth or its move time
WorkerDone ==
  /\ workerSearch # NoSearch
  /\ workerOutbox' = Append(workerOutbox, Message("bestmove", workerSearch.search, workerSearch.fen, 0))
  /\ workerSearch' = NoSearch
  /\ UNCHANGED <<appVars, oracleThrows, pendingImport, labVars, loaderVars, heapVars, saveVars, statsVars, engineRunning,
                 engineReady, isSearching, pendingAnalysis, engineLines, treeEval, goSeq, workerInbox>>

\* the oldest message of the worker is handled
EngineOnMessage ==
  /\ workerOutbox # <<>>
  /\ pendingEffects = <<>>
  /\ SetEngine(onmessage(Engine, workerOutbox[1], selectedNode(App).fen))
  /\ workerOutbox' = Tail(workerOutbox)
  /\ UNCHANGED <<appVars, oracleThrows, pendingImport, labVars, loaderVars, heapVars, saveVars, statsVars, workerSearch>>

EngineNext ==
  \/ EngineRunEffects
  \/ EngineHydrate
  \/ EngineLoadRepertoire
  \/ EngineMakeMove
  \/ ToggleEngine
  \/ RunTreeStockfishEval
  \/ StopTreeStockfishEval
  \/ TreeEvalPoll
  \/ WorkerTakes
  \/ WorkerInfo
  \/ WorkerDone
  \/ EngineOnMessage

Init == AppInit /\ LabInit /\ LoaderIdle /\ HeapInit /\ AsyncIdle /\ oracleThrows \in BOOLEAN

\* the application over a store that holds what an earlier session saved
InitSave ==
  /\ AppInit /\ LabInit /\ LoaderIdle /\ HeapInit /\ SaveInit /\ StatsMounted /\ EngineMounted
  /\ pendingImport = <<>>
  /\ oracleThrows = FALSE

Spec == Init /\ [][Next]_vars

SpecCollection == Init /\ [][NextCollection]_vars

SpecTree == Init /\ [][LabNext]_vars

SpecTraining == Init /\ [][NextTraining]_vars

SpecHeap == Init /\ [][HeapNext]_vars

SpecLoader == LoaderInit /\ [][LoaderNext]_vars

SpecSave == InitSave /\ [][SaveNext]_vars

SpecStats == Init /\ [][StatsNext]_vars

SpecEngine == Init /\ [][EngineNext]_vars

\* ------------------------------------------------------------------------
\* Properties of the application
\* ------------------------------------------------------------------------
\* the ids reached from the root by following children
RECURSIVE ReachedFrom(_, _, _)
ReachedFrom(tree, frontier, seen) ==
  IF frontier = {} THEN seen
  ELSE ReachedFrom(tree,
                   (UNION {Range(tree.nodes[n].children) : n \in frontier}
                      \cap DOMAIN tree.nodes) \ (seen \cup frontier),
                   seen \cup frontier)

IsArborescence(tree) ==
  /\ tree.rootId \in DOMAIN tree.nodes
  /\ ReachedFrom(tree, {tree.rootId}, {}) = DOMAIN tree.nodes
  /\ \A n \in DOMAIN tree.nodes :
       \A c \in Range(tree.nodes[n].children) :
         c \in DOMAIN tree.nodes /\ tree.nodes[c].parentId = n

\* the working trees and the tree of every entry
AllTrees ==
  {trees[side] : side \in Sides}
    \cup UNION { {repertoiresBySide[side][i].tree : i \in 1..Len(repertoiresBySide[side])} :
                 side \in Sides }

\* C1: in every reachable state every tree, the working trees and the tree of
\* every entry, is a rooted arborescence: every id of the node map is reached
\* from rootId by following children, and every id listed in a node's children
\* maps to a node whose parentId is that node
C1_TreesAreArborescences == \A tree \in AllTrees : IsArborescence(tree)

\* a branch with descendants has just been deleted from a repertoire's tree
C1_Witness ==
  /\ lastOp.op = "deleteLastMove"
  /\ Cardinality(DOMAIN trees[repertoireSide].nodes) > 1
  /\ Cardinality(DOMAIN trees[repertoireSide].nodes) + 1 < trees[repertoireSide].nextId

NoDuplicateSiblings(tree) ==
  \A n \in DOMAIN tree.nodes :
    \A i, j \in 1..Len(tree.nodes[n].children) :
      (i # j /\ HasNode(tree, tree.nodes[n].children[i]) /\ HasNode(tree, tree.nodes[n].children[j]))
        => tree.nodes[tree.nodes[n].children[i]].moveUci # tree.nodes[tree.nodes[n].children[j]].moveUci

\* C2: in every reachable state no two children of the same node have the same
\* moveUci
C2_SiblingsDifferInMoveUci == \A tree \in AllTrees : NoDuplicateSiblings(tree)

\* a board move outside training went to a child that existed already: the
\* cursor is not the node created last
C2_Witness ==
  /\ lastOp.op = "makeMove"
  /\ ~isTrainingActive(App)
  /\ trees[repertoireSide].nextId > 1
  /\ selectedNode(App).id # <<"n", trees[repertoireSide].nextId - 1>>

PairOf(side) == [tree |-> trees[side], selectedNodeId |-> selectedNodeBySide[side]]

\* the step pushes the pair the side had before it
PushesPair(side) == undoStackBySide'[side] = PushUndo(undoStackBySide[side], PairOf(side))

SideToMove(fen) == IF ChessTurn(fenToChess(fen)) = "w" THEN "white" ELSE "black"

\* C5: the training advance started from any node of a working tree ends
\* before its 256 iterations are used up, at a node where the trainee is to
\* move or at a node with no children
C5_AdvanceStops ==
  \A side \in Sides :
    \A start \in DOMAIN trees[side].nodes :
      \A run \in AdvanceRuns(trees[side], side, trees[side].nodes[start], start, 0) :
        /\ run.step < maxSteps
        /\ run.cursorId \in DOMAIN trees[side].nodes
        /\ \/ Len(trees[side].nodes[run.cursorId].children) = 0
           \/ SideToMove(trees[side].nodes[run.cursorId].fen) = side

\* training has just started at a node where the opponent is to move, and the
\* advance has descended to a reply
C5_Witness ==
  /\ lastOp.op = "startTraining"
  /\ trainingSession # NoTraining
  /\ selectedNodeBySide[trainingSession.side] # trainingSession.rootNodeId

\* a legal move at the cursor that matches no child of the cursor
IsMismatch(uci) ==
  /\ ChessMoveInput(fenToChess(selectedNode(App).fen), uciToMoveInput(uci)) # NoMove
  /\ \A c \in Range(selectedNode(App).children) :
       HasNode(trees[repertoireSide], c) => trees[repertoireSide].nodes[c].moveUci # uci

\* the step leaves trees, cursors and stacks alone and arms a hint
ArmsHint ==
  /\ trees' = trees
  /\ selectedNodeBySide' = selectedNodeBySide
  /\ undoStackBySide' = undoStackBySide
  /\ trainingSession'.hintRequested
  /\ ~trainingSession'.hintVisible
  /\ \E c \in Range(selectedNode(App).children) :
       HasNode(trees[repertoireSide], c)
         /\ trainingSession'.hintMoveUci = trees[repertoireSide].nodes[c].moveUci

\* hintVisible turns true by the Hint button alone
OnlyHintButtonReveals ==
  (trainingSession'.hintVisible /\ ~trainingSession.hintVisible) => lastOp'.op = "showHint"

\* C6 as stated: in an active training session every legal move attempt that
\* matches no child of the cursor leaves tree, cursor and stack unchanged and
\* arms a hint with the moveUci of a child, not shown until the Hint button
C6_EveryMismatchArmsHint ==
  [][ /\ (lastOp'.op = "makeMove" /\ isTrainingActive(App) /\ IsMismatch(lastOp'.arg)) => ArmsHint
      /\ OnlyHintButtonReveals
    ]_vars

\* C6, amended: in an active training session a legal move attempt that
\* matches no child of the cursor leaves every tree, cursor and stack
\* unchanged; when the cursor has children and the trainee is to move it sets
\* hintRequested, records the moveUci of a child of the cursor and leaves
\* hintVisible false, which only the Hint button sets
C6_MismatchArmsHint ==
  [][ /\ (lastOp'.op = "makeMove" /\ isTrainingActive(App) /\ IsMismatch(lastOp'.arg))
           => /\ trees' = trees
              /\ selectedNodeBySide' = selectedNodeBySide
              /\ undoStackBySide' = undoStackBySide
              /\ ( ( /\ Len(selectedNode(App).children) > 0
                     /\ SideToMove(selectedNode(App).fen) = repertoireSide ) => ArmsHint )
      /\ OnlyHintButtonReveals
    ]_vars

\* a wrong move has just armed a hint that is not shown
C6_Witness ==
  /\ lastOp.op = "makeMove"
  /\ isTrainingActive(App)
  /\ trainingSession.hintRequested
  /\ ~trainingSession.hintVisible
  /\ trainingSession.hintMoveUci # Null
  /\ trainingSession.hintMoveUci # lastOp.arg

\* ------------------------------------------------------------------------
\* Properties of the tree functions
\* ------------------------------------------------------------------------
\* the ids on the parentId chain of a node, the node included
AncestorsOrSelf(tree, id) ==
  {buildPath(tree, id)[i].id : i \in 1..Len(buildPath(tree, id))}

\* a node and everything below it
Subtree(tree, id) == {n \in DOMAIN tree.nodes : id \in AncestorsOrSelf(tree, n)}

\* list is old with its occurrence of id taken out, the others in order
IsWithout(list, old, id) ==
  \E k \in 1..Len(old) :
    /\ old[k] = id
    /\ list = SubSeq(old, 1, k - 1) \o SubSeq(old, k + 1, Len(old))

\* after is before with the branch at id cut off
IsBranchRemoval(before, id, after) ==
  /\ after.rootId = before.rootId
  /\ after.nextId = before.nextId
  /\ DOMAIN after.nodes = DOMAIN before.nodes \ Subtree(before, id)
  /\ \A n \in DOMAIN after.nodes :
       IF n = before.nodes[id].parentId
       THEN /\ IsWithout(after.nodes[n].children, before.nodes[n].children, id)
            /\ [after.nodes[n] EXCEPT !.children = <<>>] = [before.nodes[n] EXCEPT !.children = <<>>]
       ELSE after.nodes[n] = before.nodes[n]

\* C7: removeBranch returns the tree unchanged for the root id and for an
\* unknown id; otherwise the node map of the result is the one of the input
\* without the node and all its descendants, the children of the former
\* parent are the old ones without that id and in the old order, and every
\* other node is unchanged
C7_RemoveBranchCutsSubtree ==
  labLast.op = "removeBranch"
    => IF ~HasNode(labLast.before, labLast.arg) \/ labLast.arg = labLast.before.rootId
       THEN labTree = labLast.before
       ELSE IsBranchRemoval(labLast.before, labLast.arg, labTree)

\* Nf3, which has a reply below it, has just been deleted from under a move
\* with the children [Nf3, Bc4], and that move is left with exactly [Bc4]
C7_Witness ==
  /\ labLast.op = "removeBranch"
  /\ HasNode(labLast.before, labLast.arg)
  /\ labLast.before.nodes[labLast.arg].moveSan = <<"N", "f", "3">>
  /\ Len(labLast.before.nodes[labLast.arg].children) > 0
  /\ labLast.before.nodes[labLast.arg].parentId # labLast.before.rootId
  /\ Len(labLast.before.nodes[labLast.before.nodes[labLast.arg].parentId].children) = 2
  /\ labLast.before.nodes[labLast.before.nodes[labLast.arg].parentId].children[1] = labLast.arg
  /\ Len(labTree.nodes[labLast.before.nodes[labLast.arg].parentId].children) = 1
  /\ labTree.nodes[labTree.nodes[labLast.before.nodes[labLast.arg].parentId].children[1]].moveSan
       = <<"B", "c", "4">>

\* C8: no id that removeBranch has removed from the tree is the id of a node
\* of the tree afterwards, whatever board moves and imports create nodes
C8_RemovedIdsStayUnused == labRemoved \cap DOMAIN labTree.nodes = {}

\* a board move or an import has just created a node in a tree that a branch
\* was removed from
C8_Witness ==
  /\ labRemoved # {}
  /\ labLast.op \in {"makeMove", "parsePgnToTree", "insertLine"}
  /\ DOMAIN labTree.nodes # DOMAIN labLast.before.nodes

\* C9: importing a PGN text into the tree that importing it has produced
\* yields that tree again, with the same ids, children and nextId; so does
\* inserting a line a second time
C9_ImportTwiceIsImportOnce ==
  /\ labLast.op = "parsePgnToTree"
       => /\ ~parsePgnToTree(labTree, labLast.arg, oracleThrows).threw
          /\ parsePgnToTree(labTree, labLast.arg, oracleThrows).tree = labTree
  /\ labLast.op = "insertLine"
       => /\ ~insertLine(labTree, labLast.arg, oracleThrows).threw
          /\ insertLine(labTree, labLast.arg, oracleThrows).tree = labTree

\* a text with a variation has just been imported and has created nodes
C9_Witness ==
  /\ labLast.op = "parsePgnToTree"
  /\ labLast.arg = PgnVariation
  /\ Cardinality(DOMAIN labTree.nodes) > Cardinality(DOMAIN labLast.before.nodes) + 1

\* the SAN moves on the way from the root to a node
SanPath(tree, id) ==
  [i \in 1..(Len(buildPath(tree, id)) - 1) |-> buildPath(tree, id)[i + 1].moveSan]

\* the root-to-leaf SAN sequences of a tree
LeafLines(tree) ==
  {SanPath(tree, n) : n \in {m \in DOMAIN tree.nodes : Len(tree.nodes[m].children) = 0}}

ExportNames == {<<>>, TextMain}

\* C10: for a tree built by imports and line insertions alone, parsing the
\* text exportTreeToPgn writes for it into an empty tree gives a tree with
\* the same set of root-to-leaf SAN sequences
C10_ExportThenParseKeepsLines ==
  labLast.pure
    => \A name \in ExportNames :
         /\ ~parsePgnToTree(createEmptyTree("white"),
                            exportTreeToPgn(labTree, "white", name), oracleThrows).threw
         /\ LeafLines(parsePgnToTree(createEmptyTree("white"),
                                     exportTreeToPgn(labTree, "white", name), oracleThrows).tree)
              = LeafLines(labTree)

\* a tree built by insertions alone that branches below the first move and
\* at the root
C10_Witness ==
  /\ labLast.pure
  /\ Len(labTree.nodes[labTree.rootId].children) > 1
  /\ Cardinality(LeafLines(labTree)) > 2

\* ------------------------------------------------------------------------
\* Properties of the import
\* ------------------------------------------------------------------------
SanE4 == <<"e", "4">>
SanE5 == <<"e", "5">>
SanNf3 == <<"N", "f", "3">>
SanNc6 == <<"N", "c", "6">>
SanBc4 == <<"B", "c", "4">>
SanBc5 == <<"B", "c", "5">>

\* the children of a node that carry a SAN
ChildrenBySan(tree, id, san) ==
  {c \in Range(tree.nodes[id].children) : HasNode(tree, c) /\ tree.nodes[c].moveSan = san}

\* the node reached from a node by a sequence of SAN moves, Null when the
\* tree has no such path
RECURSIVE NodeFrom(_, _, _)
NodeFromChild(tree, hits, sans) ==
  IF hits = {} THEN Null ELSE NodeFrom(tree, CHOOSE c \in hits : TRUE, sans)

NodeFrom(tree, id, sans) ==
  IF Len(sans) = 0 THEN id
  ELSE NodeFromChild(tree, ChildrenBySan(tree, id, sans[1]), Tail(sans))

NodeAt(tree, sans) == NodeFrom(tree, tree.rootId, sans)

\* the import of a text has added no node at the end of a path
AddsNoNodeAt(sans) == NodeAt(labTree, sans) = NodeAt(labLast.before, sans)

\* C11: importing "1. e4 e5 2. Nf3 (2. Bc4 Bc5) Nc6" attaches the first move
\* of the variation, Bc4, under the parent of the move applied last, Nf3, as
\* its sibling, and continues after the closing parenthesis from Nf3: the
\* tree holds e4 e5 Nf3 Nc6 and e4 e5 Bc4 Bc5, the import adds nothing under
\* Nf3 from the variation and nothing under the variation from the main line,
\* and into an empty tree it gives e5 the children [Nf3, Bc4] and six nodes
\* below the root
C11_VariationIsSiblingOfLastMove ==
  (labLast.op = "parsePgnToTree" /\ labLast.arg = PgnVariation)
    => /\ NodeAt(labTree, <<SanE4, SanE5, SanNf3, SanNc6>>) # Null
       /\ NodeAt(labTree, <<SanE4, SanE5, SanBc4, SanBc5>>) # Null
       /\ AddsNoNodeAt(<<SanE4, SanE5, SanNf3, SanBc5>>)
       /\ AddsNoNodeAt(<<SanE4, SanE5, SanBc4, SanNc6>>)
       /\ AddsNoNodeAt(<<SanE4, SanE5, SanBc4, SanBc5, SanNc6>>)
       /\ labLast.before = createEmptyTree("white")
            => /\ Cardinality(DOMAIN labTree.nodes) = 7
               /\ labTree.nodes[NodeAt(labTree, <<SanE4, SanE5>>)].children
                    = << NodeAt(labTree, <<SanE4, SanE5, SanNf3>>),
                         NodeAt(labTree, <<SanE4, SanE5, SanBc4>>) >>

\* the text with the variation has just been imported into the empty tree
C11_Witness ==
  /\ labLast.op = "parsePgnToTree"
  /\ labLast.arg = PgnVariation
  /\ labLast.before = createEmptyTree("white")
  /\ Len(labTree.nodes[NodeAt(labTree, <<SanE4, SanE5>>)].children) = 2

\* "1. e4": the tokens of PgnIllegal before the move the oracle rejects
PgnBeforeIllegal == <<"1", ".", " ", "e", "4">>

\* C12 as stated: an import that meets a move the oracle rejects keeps what
\* was merged before that token and adds no node for a later token of the
\* branch: importing "1. e4 Qh5 e5 2. Nf3" gives the tree that importing
\* "1. e4" gives
C12_ParsingStopsAtRejectedMove ==
  (labLast.op = "parsePgnToTree" /\ labLast.arg = PgnIllegal)
    => labTree = parsePgnToTree(labLast.before, PgnBeforeIllegal, FALSE).tree

\* "1. Nf3 {Reti} Nc6 $1 *" and "1. e4! ; king pawn\ne5", the two games of
\* PgnTwoGames
PgnFirstGame == SubSeq(PgnTwoGames, 1, 22)

PgnSecondGame == SubSeq(PgnTwoGames, 25, Len(PgnTwoGames))

\* C13: a text of two games without header lines, separated by a blank line,
\* is split into one chunk per game, and the moves of each game are merged
\* from the root: the first move of the second game becomes a child of the
\* root and nothing is added below the last move of the first game
C13_GamesWithoutHeadersAreSplit ==
  (labLast.op = "parsePgnToTree" /\ labLast.arg = PgnTwoGames)
    => /\ splitPgnGames(labLast.arg) = <<PgnFirstGame, PgnSecondGame>>
       /\ NodeAt(labTree, <<SanNf3, SanNc6>>) # Null
       /\ NodeAt(labTree, <<SanE4>>) # Null
       /\ AddsNoNodeAt(<<SanNf3, SanNc6, SanE4>>)

\* C14 as stated: a ';' comment hides the text up to the end of its line
\* only: after the import of a text with the lines "1. e4! ; king pawn" and
\* "e5", the move e5 of the second line is in the tree, below a move e4
C14_LineCommentEndsAtLineEnd ==
  (labLast.op = "parsePgnToTree" /\ labLast.arg = PgnTwoGames)
    => \E n \in DOMAIN labTree.nodes :
         /\ labTree.nodes[n].moveSan = SanE5
         /\ labTree.nodes[labTree.nodes[n].parentId].moveSan = SanE4

\* ------------------------------------------------------------------------
\* Properties of browse mode and of the collection
\* ------------------------------------------------------------------------
\* the entry holds a node at the position with a child reached by the move
ContainsMoveAt(entry, fen, uci) ==
  \E n \in DOMAIN entry.tree.nodes :
    /\ entry.tree.nodes[n].fen = fen
    /\ \E c \in Range(entry.tree.nodes[n].children) :
         HasNode(entry.tree, c) /\ entry.tree.nodes[c].moveUci = uci

MovesAt(entry, fen) ==
  { entry.tree.nodes[c].moveUci :
      c \in { d \in DOMAIN entry.tree.nodes :
                /\ entry.tree.nodes[d].parentId # Null
                /\ HasNode(entry.tree, entry.tree.nodes[d].parentId)
                /\ entry.tree.nodes[entry.tree.nodes[d].parentId].fen = fen
                /\ d \in Range(entry.tree.nodes[entry.tree.nodes[d].parentId].children) } }

OwnerNames(list, fen, uci) ==
  { list[i].name : i \in { j \in 1..Len(list) : ContainsMoveAt(list[j], fen, uci) } }

OptionsMatchEntries(options, list, fen) ==
  /\ { options[k].moveUci : k \in 1..Len(options) } = UNION { MovesAt(list[i], fen) : i \in 1..Len(list) }
  /\ \A j, k \in 1..Len(options) : j # k => options[j].moveUci # options[k].moveUci
  /\ \A k \in 1..Len(options) : options[k].repertoireNames = OwnerNames(list, fen, options[k].moveUci)

\* C15: in browse mode the options at the cursor are exactly the moves of
\* the children of every node, of every entry of the side, whose position
\* is the cursor's, each option once, and each option carries the names
\* of exactly the entries that hold the move at that position
C15_BrowseOptionsAreTheUnion ==
  isBrowseMode(App)
    => OptionsMatchEntries(browseMoveOptions(App), repertoiresBySide[repertoireSide], selectedNode(App).fen)

\* browse mode after 1. e4 e5 with Bc4 in one entry and Nf3 under another
\* name: two options, each with one name
C15_Witness ==
  /\ isBrowseMode(App)
  /\ Len(browseMoveOptions(App)) = 2
  /\ { browseMoveOptions(App)[k].moveUci : k \in 1..2 } = {<<"f1", "c4">>, <<"g1", "f3">>}
  /\ { browseMoveOptions(App)[k].repertoireNames : k \in 1..2 } = {{TextDefault}, {TextMain}}

\* the number of entries of the list holding the move at the position
EntryCount(list, fen, uci) ==
  Cardinality({ i \in 1..Len(list) : ContainsMoveAt(list[i], fen, uci) })

OrderedByEntriesThenNotation(options, list, fen) ==
  \A j, k \in 1..Len(options) :
    j < k =>
      /\ EntryCount(list, fen, options[j].moveUci) >= EntryCount(list, fen, options[k].moveUci)
      /\ EntryCount(list, fen, options[j].moveUci) = EntryCount(list, fen, options[k].moveUci)
           => localeCompare(options[j].moveSan, options[k].moveSan) <= 0

\* C16: in the option list of browse mode a move held by more entries of
\* the side comes before a move held by fewer, and moves held by the same
\* number of entries come in the order of their notation
C16_MoreEntriesComeFirst ==
  isBrowseMode(App)
    => OrderedByEntriesThenNotation(browseMoveOptions(App), repertoiresBySide[repertoireSide], selectedNode(App).fen)

EntryTreesOf(list) == [i \in 1..Len(list) |-> list[i].tree]

KeepsNodesAndOrder(old, new) ==
  /\ DOMAIN old.nodes \subseteq DOMAIN new.nodes
  /\ \A n \in DOMAIN old.nodes :
       /\ Len(new.nodes[n].children) >= Len(old.nodes[n].children)
       /\ SubSeq(new.nodes[n].children, 1, Len(old.nodes[n].children)) = old.nodes[n].children

ReadsDefault(name) == ToLowerCase(Trim(name)) = <<"d", "e", "f", "a", "u", "l", "t">>

EntriesWithId(list, id) == { i \in 1..Len(list) : list[i].id = id }

\* the entry a deleteRepertoire step names is one the handler must refuse
MustRefuse(list, id) ==
  \E i \in EntriesWithId(list, id) : ReadsDefault(list[i].name) \/ Len(list) = 1

\* C18: a deleteRepertoire step whose target reads "default" whatever the
\* case of its letters, or is the only entry of its side, leaves the
\* collection, the active ids, the working trees, the cursors, the undo
\* stacks and the training session as they were; and every side has at
\* least one entry in every state
C18_DeleteRefusesDefaultAndLastEntry ==
  /\ [][ (lastOp'.op = "deleteRepertoire" /\ MustRefuse(repertoiresBySide[boardOrientation(App)], lastOp'.arg[1]))
           => UNCHANGED <<repertoiresBySide, activeRepertoireIdBySide, trees, selectedNodeBySide,
                          undoStackBySide, trainingSession>>
       ]_vars
  /\ [](\A side \in Sides : Len(repertoiresBySide[side]) >= 1)

\* a confirmed deletion of the only entry of the side, which is not named
\* Default, has just been refused
C18_Witness ==
  /\ lastOp.op = "deleteRepertoire"
  /\ lastOp.arg[2]
  /\ Len(repertoiresBySide[boardOrientation(App)]) = 1
  /\ repertoiresBySide[boardOrientation(App)][1].id = lastOp.arg[1]
  /\ ~ReadsDefault(repertoiresBySide[boardOrientation(App)][1].name)

WithoutEntry(list, id) == SelectSeq(list, LAMBDA item : item.id # id)

\* the step deletes the entry with the id from the side's list and makes
\* the first entry left the side's working tree and cursor
DeletesWithFallback(side, id) ==
  /\ repertoiresBySide'[side] = WithoutEntry(repertoiresBySide[side], id)
  /\ trees'[side] = WithoutEntry(repertoiresBySide[side], id)[1].tree
  /\ selectedNodeBySide'[side] = WithoutEntry(repertoiresBySide[side], id)[1].selectedNodeId
  /\ undoStackBySide'[side] = <<>>
  /\ (trainingSession # NoTraining /\ trainingSession.side = side) => trainingSession' = NoTraining

\* C19: a confirmed deleteRepertoire step on the active entry of a side,
\* when the handler does not refuse it, removes the entry from the list and
\* in that step makes the first remaining entry's tree and cursor the
\* side's working tree and cursor, empties the side's undo stack and
\* discards a training session on that side
C19_DeletingActiveEntryFallsBack ==
  [][ ( /\ lastOp'.op = "deleteRepertoire"
        /\ lastOp'.arg[2]
        /\ lastOp'.arg[1] = activeRepertoireIdBySide[boardOrientation(App)]
        /\ EntriesWithId(repertoiresBySide[boardOrientation(App)], lastOp'.arg[1]) # {}
        /\ ~MustRefuse(repertoiresBySide[boardOrientation(App)], lastOp'.arg[1]) )
        => DeletesWithFallback(boardOrientation(App), lastOp'.arg[1])
    ]_vars

\* the entry created last, active since its creation, has just been
\* deleted: the one entry left gives the working tree and the cursor
C19_Witness ==
  /\ lastOp.op = "deleteRepertoire"
  /\ lastOp.arg[2]
  /\ lastOp.arg[1] = <<boardOrientation(App), repertoireIdSeq>>
  /\ Len(repertoiresBySide[boardOrientation(App)]) = 1
  /\ EntriesWithId(repertoiresBySide[boardOrientation(App)], lastOp.arg[1]) = {}
  /\ trees[boardOrientation(App)] = repertoiresBySide[boardOrientation(App)][1].tree
  /\ selectedNodeBySide[boardOrientation(App)] = repertoiresBySide[boardOrientation(App)][1].selectedNodeId
  /\ undoStackBySide[boardOrientation(App)] = <<>>

ActiveIdIsValid(side) ==
  \/ activeRepertoireIdBySide[side] = Null
  \/ \E i \in 1..Len(repertoiresBySide[side]) : repertoiresBySide[side][i].id = activeRepertoireIdBySide[side]

\* C20: in every state each side's active id is null or the id of an entry
\* of that side's list
C20_ActiveIdIsNullOrPresent == \A side \in Sides : ActiveIdIsValid(side)

\* an entry has just been deleted while another entry of its side, created
\* or loaded before, is the active one
C20_Witness ==
  /\ lastOp.op = "deleteRepertoire"
  /\ lastOp.arg[2]
  /\ EntriesWithId(repertoiresBySide[boardOrientation(App)], lastOp.arg[1]) = {}
  /\ activeRepertoireIdBySide[boardOrientation(App)] # Null

\* ------------------------------------------------------------------------
\* Properties of the cursors and of the loader
\* ------------------------------------------------------------------------
\* the cursors of a state and the cursors of its entries are nodes
CursorsAreNodesIn(s) ==
  \A side \in Sides :
    /\ HasNode(s.trees[side], s.selectedNodeBySide[side])
    /\ \A i \in 1..Len(s.repertoiresBySide[side]) :
         HasNode(s.repertoiresBySide[side][i].tree, s.repertoiresBySide[side][i].selectedNodeId)

\* C21: in every state the cursor of each side's working tree and the
\* selectedNodeId of every entry is the id of a node of the corresponding
\* tree's node map; so are those of the state the loader sets from any stored
\* value it accepts.
C21_CursorsAreNodes ==
  /\ CursorsAreNodesIn(App)
  /\ loaded # NotLoaded => CursorsAreNodesIn(loaded.state)

\* a single fresh empty repertoire named "Default"
IsFreshDefault(list, side) ==
  /\ Len(list) = 1
  /\ list[1].name = TextDefault
  /\ list[1].tree = createEmptyTree(side)
  /\ list[1].selectedNodeId = RootIdOf(side)

Defects(value) == Missing(value) \cup Mistyped(value)

\* the sides a defect of the stored value belongs to: both for a field of
\* the payload itself, one for a field below a side
AffectedSides(value) ==
  {side \in Sides :
     \/ \E path \in Defects(value) : Len(path) = 1 \/ path[2] = side
     \/ /\ value.version = 2
        /\ \E i \in 1..Len(value.repertoiresBySide[side]) : Defects(value.repertoiresBySide[side][i]) # {}}

\* C29: loading never raises to the caller, and a stored value with a
\* missing or mistyped field at any level (in the payload, in an entry or
\* inside a tree) makes the affected side, or the whole collection, fall back
\* to a single fresh empty repertoire named "Default".
C29_DefectFallsBackToDefault ==
  /\ \A loadFailed \in BOOLEAN : hydrateAppState(App, storedValue, loadFailed) # {}
  /\ loaded # NotLoaded /\ ~loaded.failed
       => \A side \in AffectedSides(storedValue) :
            IsFreshDefault(loaded.state.repertoiresBySide[side], side)

\* the entry a side of a version 1 value is migrated to
IsMigratedSide(value, list, side) ==
  /\ Len(list) = 1
  /\ list[1].name = TextDefault
  /\ list[1].tree = value.trees[side]
  /\ list[1].selectedNodeId = IF value.selectedNodeBySide[side] \in DOMAIN value.trees[side].nodes
                              THEN value.selectedNodeBySide[side] ELSE value.trees[side].rootId

\* C30: a valid version 1 value is migrated to a version 2 collection with
\* exactly one entry per side, named "Default", that holds the side's legacy
\* tree and its legacy cursor, or the root when the cursor is not a node of
\* the tree; the active id of both sides is null.
C30_LegacyValueIsMigrated ==
  loaded # NotLoaded /\ storedValue.version = 1 /\ Defects(storedValue) = {}
    => /\ loaded.persisted.version = 2
       /\ \A side \in Sides :
            /\ IsMigratedSide(storedValue, loaded.persisted.repertoiresBySide[side], side)
            /\ loaded.persisted.activeRepertoireIdBySide[side] = Null

\* a legacy value whose white cursor is no node of the white tree has been
\* loaded: the entry holds the tree with its moves and the root as cursor
C30_Witness ==
  /\ loaded # NotLoaded /\ storedValue.version = 1 /\ Defects(storedValue) = {}
  /\ storedValue.selectedNodeBySide["white"] = StaleNodeId
  /\ Cardinality(DOMAIN loaded.persisted.repertoiresBySide["white"][1].tree.nodes) > 1
  /\ loaded.persisted.repertoiresBySide["white"][1].selectedNodeId = RootIdOf("white")

\* ------------------------------------------------------------------------
\* Properties of the undo stack
\* ------------------------------------------------------------------------
\* the step is one of the handlers that push, run outside a training session
IsEditingStep ==
  \/ lastOp'.op \in {"navigateToNode", "goBackOneMove", "deleteLastMove", "importPgn"}
  \/ (lastOp'.op \in {"makeMove", "playLichessMove"} /\ ~isTrainingActive(App))

\* the stack after the step is the stack before it without its oldest
\* snapshot, followed by the pair the side had before the step
DropsOldest(side) ==
  /\ Len(undoStackBySide'[side]) = UndoLimit
  /\ \A i \in 1..(UndoLimit - 1) : undoStackBySide'[side][i] = undoStackBySide[side][i + 1]
  /\ undoStackBySide'[side][UndoLimit] = PairOf(side)

\* C22: a side's undo stack never holds more snapshots than the limit (200
\* in the program, UndoLimit here); a push onto a full stack drops the oldest
\* snapshot and keeps the others, in order, followed by the pushed one.
C22_UndoStackIsCapped ==
  /\ [][ IsEditingStep /\ Len(undoStackBySide[repertoireSide]) = UndoLimit
           => DropsOldest(repertoireSide) ]_vars
  /\ [](\A side \in Sides : Len(undoStackBySide[side]) <= UndoLimit)

\* a handler has pushed onto a full stack: each move of the run added a node
\* and pushed the tree before it, and the empty tree pushed first is gone
C22_Witness ==
  /\ lastOp.op \in {"makeMove", "navigateToNode", "goBackOneMove"}
  /\ ~isTrainingActive(App)
  /\ steps > UndoLimit
  /\ Len(undoStackBySide[repertoireSide]) = UndoLimit
  /\ \A i \in 1..UndoLimit :
       Cardinality(DOMAIN undoStackBySide[repertoireSide][i].tree.nodes) = i + 1

\* C23: a step of Undo taken while the active side's stack is empty, or while
\* a training session is active for that side, changes no working tree, no
\* cursor and no undo stack.
C23_UndoIsNoOpWhenEmptyOrTraining ==
  [][ ( /\ lastOp'.op = "undoNavigation"
        /\ (Len(undoStackBySide[repertoireSide]) = 0 \/ isTrainingActive(App)) )
        => /\ trees' = trees
           /\ selectedNodeBySide' = selectedNodeBySide
           /\ undoStackBySide' = undoStackBySide
    ]_vars

\* Undo has just been called during a training session of a side whose
\* stack holds a snapshot
C23_Witness ==
  /\ lastOp.op = "undoNavigation"
  /\ isTrainingActive(App)
  /\ Len(undoStackBySide[repertoireSide]) > 0

\* ------------------------------------------------------------------------
\* Properties of the training session
\* ------------------------------------------------------------------------
\* the session has nothing to ask at the cursor
NothingToAsk(s) ==
  \/ Len(selectedNode(s).children) = 0
  \/ toTurnColor(selectedNode(s).fen) # s.repertoireSide

\* C24: during a training session of the active side a move attempt made
\* while the cursor node has no children, or while it is not the trainee's
\* side to move at the cursor, changes no cursor, no tree and no field of the
\* session.
C24_TrainingMoveIsRejected ==
  [][ lastOp'.op = "makeMove" /\ isTrainingActive(App) /\ NothingToAsk(App)
        => /\ trees' = trees
           /\ selectedNodeBySide' = selectedNodeBySide
           /\ trainingSession' = trainingSession
    ]_vars

\* a move the rules accept at the cursor has just been tried during a
\* session whose cursor node has no children
C24_Witness ==
  /\ lastOp.op = "makeMove"
  /\ isTrainingActive(App)
  /\ Len(selectedNode(App).children) = 0
  /\ ChessMoveInput(fenToChess(selectedNode(App).fen), uciToMoveInput(lastOp.arg)) # NoMove

\* the children of the cursor reached by the move
MatchingChildren(s, uci) ==
  {id \in Range(selectedNode(s).children) :
     HasNode(s.trees[s.repertoireSide], id) /\ s.trees[s.repertoireSide].nodes[id].moveUci = uci}

\* the advance stops at the node: no children, or the trainee to move
AdvanceStopsAt(node, side) == Len(node.children) = 0 \/ toTurnColor(node.fen) = side

\* the node end is where an advance started at the node start can stop: start
\* is on the path from the root to end, the advance stops at end and at no
\* node of the path from start to the parent of end
IsAdvanceResult(tree, side, start, end) ==
  /\ HasNode(tree, end)
  /\ \E k \in 1..Len(buildPath(tree, end)) :
       /\ buildPath(tree, end)[k].id = start
       /\ \A j \in k..(Len(buildPath(tree, end)) - 1) : ~AdvanceStopsAt(buildPath(tree, end)[j], side)
  /\ AdvanceStopsAt(tree.nodes[end], side)

HintIsCleared(session) ==
  /\ ~session.hintRequested
  /\ ~session.hintVisible
  /\ session.hintMoveUci = Null

ContinueRestartsLine ==
  lastOp'.op = "restartTrainingLine"
    => /\ trees' = trees
       /\ trainingSession'.side = trainingSession.side
       /\ trainingSession'.rootNodeId = trainingSession.rootNodeId
       /\ IsAdvanceResult(trees[trainingSession.side], trainingSession.side,
                          trainingSession.rootNodeId, selectedNodeBySide'[trainingSession.side])

\* C26: while a training session is active the line is complete (Continue is
\* offered) exactly when the cursor node has zero children, and Continue
\* keeps the session and sets the cursor to the result of the advance started
\* at the session's rootNodeId.
C26_LineCompleteIffNoChildren ==
  /\ [](isTrainingActive(App) => (isTrainingLineEnd(App) <=> Len(selectedNode(App).children) = 0))
  /\ [][ContinueRestartsLine]_vars

\* the session is gone after the step, or the effects that are due, which run
\* before any handler does, remove it
DiscardedAtOnce ==
  \/ trainingSession' = NoTraining
  \/ (pendingEffects' # <<>> /\ pendingEffects'[1].trainingSession = NoTraining)

SessionIsStale ==
  /\ trainingSession # NoTraining
  /\ \/ repertoireSide # trainingSession.side
     \/ ~HasNode(trees[trainingSession.side], trainingSession.rootNodeId)

C28_GivenTreeIsNeverChanged ==
  \A i \in 1..Len(heapSnapshots) : Deref(heap, heapSnapshots[i].tree) = heapSnapshots[i].value

\* a board move, an import through nodes of the tree it was given and a
\* removal have each produced a tree that differs from the one given
C28_Witness ==
  /\ Len(heapSnapshots) = 3
  /\ {heapSnapshots[i].op : i \in 1..3} = {"makeMove", "parsePgnChunkIntoTree", "removeBranch"}
  /\ heapSnapshots[1].value # heapSnapshots[2].value
  /\ heapSnapshots[2].value # heapSnapshots[3].value
  /\ heapSnapshots[3].value # Deref(heap, heapTree)
  /\ heapSnapshots[2].op = "parsePgnChunkIntoTree"

\* ------------------------------------------------------------------------
\* Properties of the save of the collection
\* ------------------------------------------------------------------------
\* hydrated, and the effects of the last commit have run
SaveIsQuiet == hasHydratedAppState /\ pendingEffects = <<>>

\* a step in which idbSet is called
IdbSetIsCalled == Len(idbQueue') > Len(idbQueue)

\* a step in which a call of idbSet settles
IdbSetHasSettled == Len(idbQueue') < Len(idbQueue)

C34_BooksAreNotPersisted ==
  /\ [][idbValue' = idbValue]_vars
  /\ [](lastOp.op = "hydrate" => \A side \in Sides : DOMAIN trees[side].nodes = {RootIdOf(side)})

ChildrenReordered(side, id) ==
  /\ HasNode(trees[side], id) /\ HasNode(trees'[side], id)
  /\ trees'[side].nodes[id].children # trees[side].nodes[id].children
  /\ Range(trees'[side].nodes[id].children) = Range(trees[side].nodes[id].children)

\* C37: whenever the children of a node are put in another order, the
\* statistics held are those of a request for that node's position
C37_ResortUsesOwnStatistics ==
  [][ \A side \in Sides : \A id \in DOMAIN trees[side].nodes :
        ChildrenReordered(side, id) => lichessData.fen = trees[side].nodes[id].fen ]_vars

\* ------------------------------------------------------------------------
\* Properties of the engine
\* ------------------------------------------------------------------------
\* the line of that multipv is set in the step, to the output of another
\* search than before
LineIsAdded(multipv) ==
  /\ multipv \in DOMAIN engineLines'
  /\ multipv \in DOMAIN engineLines => engineLines'[multipv] # engineLines[multipv]

\* C33: whenever output of a search of the analysis is added to the engine
\* lines, the search is one for the position now analysed, never one for a
\* position analysed before
C33_NoOutputOfPreviousPosition ==
  [][ \A multipv \in MultiPvs :
        LineIsAdded(multipv) /\ engineLines'[multipv].fen # LeafFen
        => engineLines'[multipv].fen = selectedNode(App').fen ]_vars

\* every search a go command started has reported bestmove to the app
EverySearchReported ==
  /\ workerSearch = NoSearch
  /\ \A i \in 1..Len(workerInbox) : workerInbox[i].cmd # "go"
  /\ \A i \in 1..Len(workerOutbox) : workerOutbox[i].msg # "bestmove"

\* C36: whenever go is posted, it is one go, and every search started
\* before has reported bestmove
C36_OneSearchAtATime ==
  [][goSeq' > goSeq => goSeq' = goSeq + 1 /\ EverySearchReported]_vars

\* ------------------------------------------------------------------------
\* Properties of the active entry
\* ------------------------------------------------------------------------
\* the handlers that edit the working tree, and the effects that follow
EditOps == {"makeMove", "playLichessMove", "navigateToNode", "goBackOneMove", "deleteLastMove",
            "undoNavigation", "importPgn", "lichessDone", "effects"}

\* the active entry of the side holds the side's working tree and cursor
ActiveEntryIsSynced(side) ==
  LET idx == EntryIndex(repertoiresBySide[side], activeRepertoireIdBySide[side])
  IN activeRepertoireIdBySide[side] # Null /\ idx # 0
     => /\ repertoiresBySide[side][idx].tree = trees[side]
        /\ repertoiresBySide[side][idx].selectedNodeId = selectedNodeBySide[side]

\* the step leaves every entry but the active one of the side as it was
OtherEntriesUnchanged(side) ==
  /\ Len(repertoiresBySide'[side]) = Len(repertoiresBySide[side])
  /\ \A i \in 1..Len(repertoiresBySide[side]) :
       repertoiresBySide[side][i].id # activeRepertoireIdBySide[side]
       => repertoiresBySide'[side][i] = repertoiresBySide[side][i]

\* C35: when the effects have run, the active entry of each side holds the
\* side's working tree and cursor; an edit of the working tree, and the
\* effects after it, change no entry but the active one
C35_ActiveEntryMirrorsWorkingTree ==
  /\ [](pendingEffects = <<>> => \A side \in Sides : ActiveEntryIsSynced(side))
  /\ [][lastOp'.op \in EditOps => \A side \in Sides : OtherEntriesUnchanged(side)]_vars

\* C35 amended: once the app state is hydrated and the effects have run, the
\* active entry of each side holds the side's working tree and cursor; an
\* edit of the working tree, and the effects after it, change no entry but
\* the active one
C35_HydratedActiveEntryMirrorsWorkingTree ==
  /\ [](hasHydratedAppState /\ pendingEffects = <<>> => \A side \in Sides : ActiveEntryIsSynced(side))
  /\ [][lastOp'.op \in EditOps => \A side \in Sides : OtherEntriesUnchanged(side)]_vars

\* a move was made in the active entry of a side that has another entry,
\* and the effects have run
C35_Witness ==
  /\ hasHydratedAppState /\ pendingEffects = <<>> /\ lastOp.op = "effects"
  /\ activeRepertoireIdBySide["white"] # Null
  /\ Len(repertoiresBySide["white"]) > 1
  /\ EntryIndex(repertoiresBySide["white"], activeRepertoireIdBySide["white"]) # 0
  /\ Len(undoStackBySide["white"]) > 0
  /\ repertoiresBySide["white"][EntryIndex(repertoiresBySide["white"], activeRepertoireIdBySide["white"])].tree
       = trees["white"]
  /\ Cardinality(DOMAIN trees["white"].nodes) > 1

\* ------------------------------------------------------------------------
\* Properties of the training hint
\* ------------------------------------------------------------------------
\* The handlers a user reaches while the stored state is still being read:
\* the hydration settles at any moment, four user operations deep
EarlySteps == 4

EarlyCommit(name, arg, outcomes, cost) ==
  /\ pendingEffects = <<>>
  /\ steps + cost <= EarlySteps
  /\ \E o \in outcomes :
       /\ SetApp(o.state)
       /\ pendingEffects' = EffectsDue(o.state, Settle(App, o.state, o.cursorSet))
  /\ steps' = steps + cost
  /\ lastOp' = Op(name, arg)
  /\ UNCHANGED <<oracleThrows, pendingImport, labVars, loaderVars, heapVars, asyncVars>>

EarlyHydrate ==
  /\ ~hasHydratedAppState
  /\ \E stored \in StoredPayloads, loadFailed \in BOOLEAN :
       EarlyCommit("hydrate", Null, hydrateAppState(App, stored, loadFailed), 0)

EarlyCreateNewRepertoire ==
  /\ ~hasHydratedAppState
  /\ EarlyCommit("createNewRepertoire", TextMain,
                 createNewRepertoire(App, boardOrientation(App), TextMain), 1)

EarlyImportPgn ==
  /\ ~hasHydratedAppState /\ ~isBrowseMode(App)
  /\ EarlyCommit("importPgn", PgnVariation, importPgnCurrent(App, PgnVariation, oracleThrows), 1)

EarlyStartTraining ==
  /\ ~isTrainingActive(App) /\ canStartTraining(App)
  /\ EarlyCommit("startTraining", Null, startTraining(App), 1)

EarlyMakeMove == \E uci \in Ucis : EarlyCommit("makeMove", uci, makeMove(App, uci), 1)

EarlyShowHint ==
  /\ isTrainingActive(App) /\ trainingSession.hintRequested
  /\ EarlyCommit("showHint", Null, showHint(App), 0)

EarlyNext ==
  \/ RunEffects
  \/ EarlyHydrate
  \/ EarlyCreateNewRepertoire
  \/ EarlyImportPgn
  \/ EarlyStartTraining
  \/ EarlyMakeMove
  \/ EarlyShowHint

SpecEarly == Init /\ [][EarlyNext]_vars

\* the node the cursor of the session's side is at
SessionCursorNode ==
  NodeOrRoot(trees[trainingSession.side], selectedNodeBySide[trainingSession.side])

\* the moves of the children of that node
SessionChildUcis ==
  { trees[trainingSession.side].nodes[id].moveUci :
      id \in { c \in Range(SessionCursorNode.children) : HasNode(trees[trainingSession.side], c) } }

\* C38: while there is a training session, a visible hint is a requested
\* one, and the move of the hint is the move of a child of the node the
\* cursor of the session's side is at
C38_HintIsOfCursorChild ==
  trainingSession # NoTraining
  => /\ trainingSession.hintVisible => trainingSession.hintRequested
     /\ trainingSession.hintMoveUci # Null => trainingSession.hintMoveUci \in SessionChildUcis

\* ------------------------------------------------------------------------
\* The import of a PGN file into the working tree: importPgn is an async
\* handler, it awaits file.text() and goes on with the trees, the cursors and
\* the active side of the render it was called in
\* ------------------------------------------------------------------------
importPgnClosure(s, pgn) ==
  [ activeSide |-> s.repertoireSide,
    currentTree |-> s.trees[s.repertoireSide],
    currentSelectedId |-> s.selectedNodeBySide[s.repertoireSide],
    pgn |-> pgn ]

\* importPgn after the await, in 'current' mode: the updates it queues are
\* applied to the state of that moment
importPgnResumed(s, closure, nextTree) ==
  [s EXCEPT
     !.undoStackBySide[closure.activeSide] =
        PushUndo(s.undoStackBySide[closure.activeSide],
                 [tree |-> closure.currentTree, selectedNodeId |-> closure.currentSelectedId]),
     !.trees[closure.activeSide] = nextTree,
     !.selectedNodeBySide[closure.activeSide] =
        IF HasNode(nextTree, closure.currentSelectedId) THEN closure.currentSelectedId
        ELSE nextTree.rootId]

importPgnAfterAwait(s, closure, throws) ==
  IF parsePgnToTree(closure.currentTree, closure.pgn, throws).threw THEN {Outcome(s, FALSE)}
  ELSE {Outcome(importPgnResumed(s, closure,
                                 parsePgnToTree(closure.currentTree, closure.pgn, throws).tree), TRUE)}

\* the file is chosen: importPgn runs up to its await
ImportPgnAwaits ==
  /\ ~isBrowseMode(App) /\ pendingImport = <<>>
  /\ \E pgn \in PgnTexts :
       /\ CommitApp("chooseFile", pgn, {Outcome(App, FALSE)}, 1)
       /\ pendingImport' = <<importPgnClosure(App, pgn)>>
  /\ UNCHANGED <<oracleThrows, labVars, loaderVars, heapVars, asyncVars>>

\* file.text() settles
ImportPgnResumes ==
  /\ pendingImport # <<>>
  /\ CommitApp("importPgn", pendingImport[1].pgn,
               importPgnAfterAwait(App, pendingImport[1], oracleThrows), 0)
  /\ pendingImport' = Tail(pendingImport)
  /\ UNCHANGED <<oracleThrows, labVars, loaderVars, heapVars, asyncVars>>

ImportNext ==
  \/ RunEffects
  \/ Hydrate
  \/ LoadRepertoire
  \/ CreateNewRepertoire
  \/ MakeMove
  \/ ImportPgnAwaits
  \/ ImportPgnResumes

SpecImport == Init /\ [][ImportNext]_vars

\* ------------------------------------------------------------------------
\* Properties of the import into the working tree
\* ------------------------------------------------------------------------
IsPrefixOf(short, long) ==
  /\ Len(short) <= Len(long)
  /\ \A i \in 1..Len(short) : short[i] = long[i]

NodeIsKept(before, after, id) ==
  /\ HasNode(after, id)
  /\ after.nodes[id].id = before.nodes[id].id
  /\ after.nodes[id].parentId = before.nodes[id].parentId
  /\ after.nodes[id].fen = before.nodes[id].fen
  /\ after.nodes[id].moveSan = before.nodes[id].moveSan
  /\ after.nodes[id].moveUci = before.nodes[id].moveUci
  /\ IsPrefixOf(before.nodes[id].children, after.nodes[id].children)

ImportOnlyAdds(side) ==
  /\ \A id \in DOMAIN trees[side].nodes : NodeIsKept(trees[side], trees'[side], id)
  /\ selectedNodeBySide'[side] = selectedNodeBySide[side]

\* C39: an import of PGN into the current repertoire only adds: every node
\* the tree had before the import is in the tree afterwards with its id,
\* parent, position and move, the children it had are the first of the
\* children it has, and the cursor is where it was
C39_ImportOnlyAdds ==
  [][lastOp'.op = "importPgn" => ImportOnlyAdds(pendingImport[1].activeSide)]_vars

\* ------------------------------------------------------------------------
\* Properties of the state after hydration
\* ------------------------------------------------------------------------
\* the value read from the store names an entry of its own lists as active
PayloadHoldsActiveId ==
  /\ loaded.persisted # NoPayload
  /\ \E side \in Sides : loaded.persisted.activeRepertoireIdBySide[side] # Null

HydratedSideIsFirstEntry(state, side) ==
  /\ state.activeRepertoireIdBySide[side] = Null
  /\ Len(state.repertoiresBySide[side]) > 0
  /\ state.trees[side] = state.repertoiresBySide[side][1].tree
  /\ state.selectedNodeBySide[side] = state.repertoiresBySide[side][1].selectedNodeId
  /\ state.undoStackBySide[side] = <<>>

\* C40: after the hydration from a stored value that was read, both sides
\* are in browse mode whatever active ids the value held, the working tree
\* and the cursor of each side are those of the first entry of the side's
\* list, which is the list of the value when the loader accepts it, and
\* both undo stacks are empty
C40_HydrationStartsInBrowseMode ==
  (loaded # NotLoaded /\ ~loaded.failed)
  => /\ \A side \in Sides : HydratedSideIsFirstEntry(loaded.state, side)
     /\ loaded.persisted # NoPayload
        => loaded.state.repertoiresBySide = loaded.persisted.repertoiresBySide

\* a value with an active id and more than one white entry was hydrated
C40_Witness ==
  /\ loaded # NotLoaded /\ ~loaded.failed
  /\ PayloadHoldsActiveId
  /\ Len(loaded.state.repertoiresBySide["white"]) > 1
  /\ loaded.state.trees["white"] # createEmptyTree("white")

====
